---- MODULE Spec2Model ----
(***************************************************************************)
(* Layout-preserving PDF translation (backend/app): the translation        *)
(* providers of services/translation_service.py, the three layout          *)
(* pipelines (translate_digital_pdf_with_layout and                        *)
(* translate_scanned_pdf_with_layout of main.py, PdfTranslator of          *)
(* pdf_processor.py) and the render-region geometry they share.            *)
(*                                                                         *)
(* A text is a sequence of one-character strings.  Python lists are        *)
(* 0-based, the sequences here are 1-based: index i of the code is index   *)
(* i+1 here.                                                               *)
(***************************************************************************)
EXTENDS Integers, Sequences, FiniteSets, TLC

VARIABLES
  \* one call of translate_texts
  provider, texts, mode, fails, resp, ret, sent,
  \* the render region of one fragment
  path, frag, region,
  \* one run of a layout pipeline over a document
  doc, pc, pg, pages_data, block_index, queue, log, out, faults,
  \* the two corpora a run returns for reporting
  original_text_parts, translated_text_parts,
  \* the CJK font: whether a font file exists, the path the run found, and
  \* the pages that carry the _cjk_font_embedded flag
  font_files, cjk_font_path, font_embedded,
  \* the link lookup of one span during digital extraction
  page_links, span_rect, link_info,
  \* the OCR line reconstruction of one scanned page
  ocr_data, page_blocks, ocr_pc,
  \* one call of translate_text_with_azure: the paragraphs of the text and
  \* the chunks sent to the backend
  paragraphs, text_chunks, chunk_pc,
  \* the chat endpoints: the two session stores, the number of session ids
  \* handed out, the answer of the last request and the messages of the last
  \* request to the chat model
  chat_sessions, pdf_data_storage, session_count, chat_reply, chat_prompt

adapterVars == <<provider, texts, mode, fails, resp, ret, sent>>

geomVars == <<frag, region>>

corpora == <<original_text_parts, translated_text_parts>>

fontVars == <<font_files, cjk_font_path, font_embedded>>

pipeVars == <<doc, pc, pg, pages_data, block_index, queue, log, out, faults,
              original_text_parts, translated_text_parts,
              font_files, cjk_font_path, font_embedded>>

linkVars == <<page_links, span_rect, link_info>>

ocrVars == <<ocr_data, page_blocks, ocr_pc>>

chunkVars == <<paragraphs, text_chunks, chunk_pc>>

chatVars == <<chat_sessions, pdf_data_storage, session_count, chat_reply,
              chat_prompt>>

unitVars == <<linkVars, ocrVars, chunkVars, chatVars>>

\* The parts of the state a specification does not use.
LinkIdle == page_links = <<>> /\ span_rect = <<>> /\ link_info = "pending"

OcrIdle == ocr_data = <<>> /\ page_blocks = <<>> /\ ocr_pc = "idle"

ChunkIdle == paragraphs = <<>> /\ text_chunks = <<>> /\ chunk_pc = "idle"

ChatIdle ==
  /\ chat_sessions = <<>> /\ pdf_data_storage = <<>> /\ session_count = 0
  /\ chat_reply = [op |-> "none", code |-> 0] /\ chat_prompt = <<>>

UnitIdle == LinkIdle /\ OcrIdle /\ ChunkIdle /\ ChatIdle

GeomIdle == frag = <<>> /\ region = <<>>

PipeIdle ==
  /\ doc = <<>> /\ pc = "idle" /\ pg = 0 /\ pages_data = <<>>
  /\ block_index = 0 /\ queue = <<>> /\ log = <<>>
  /\ out = [status |-> "idle", code |-> 0] /\ faults = <<>>
  /\ original_text_parts = <<>> /\ translated_text_parts = <<>>
  /\ font_files = FALSE /\ cjk_font_path = "none" /\ font_embedded = {}

(***************************************************************************)
(* Bounds of the model.                                                    *)
(***************************************************************************)
MaxTexts == 3
MaxLen == 3
MaxPages == 2
MaxFaults == 1
LargeFrags == 51
KiloLen == 1001
LongLen == 30

(***************************************************************************)
(* Program constants.                                                      *)
(***************************************************************************)
chunk_size == 50
max_group_size == 50
ShortLen == 25
ShortWords == 3
MinHeight == 10
azure_char_limit == 50000
cjk_sample == 100
float_digits == 53
limb_digits == 15

(***************************************************************************)
(* Python built-ins used by the code.                                      *)
(***************************************************************************)
Min(a, b) == IF a <= b THEN a ELSE b
Max(a, b) == IF a >= b THEN a ELSE b

SetMin(S) == CHOOSE x \in S : \A y \in S : x <= y
SetMax(S) == CHOOSE x \in S : \A y \in S : x >= y

IsSpace(c) ==
  c \in {" ", "\t", "\n", "\r", "\f", "U+000B", "U+001C", "U+001D", "U+001E",
        "U+001F", "U+0085", "U+00A0", "U+1680", "U+2000", "U+2001", "U+2002",
        "U+2003", "U+2004", "U+2005", "U+2006", "U+2007", "U+2008", "U+2009",
        "U+200A", "U+2028", "U+2029", "U+202F", "U+205F", "U+3000"}

\* str.strip(): the text without its leading and trailing whitespace.
strip(s) ==
  LET keep == {i \in 1..Len(s) : ~IsSpace(s[i])}
  IN  IF keep = {} THEN <<>> ELSE SubSeq(s, SetMin(keep), SetMax(keep))

\* str.split(): the maximal runs of non-whitespace characters, in order.
RECURSIVE splitFrom(_, _, _)
splitFrom(s, i, cur) ==
  IF i > Len(s) THEN (IF cur = <<>> THEN <<>> ELSE <<cur>>)
  ELSE IF IsSpace(s[i])
       THEN (IF cur = <<>> THEN splitFrom(s, i + 1, <<>>)
                           ELSE <<cur>> \o splitFrom(s, i + 1, <<>>))
       ELSE splitFrom(s, i + 1, Append(cur, s[i]))

split(s) == splitFrom(s, 1, <<>>)

\* sep.join(parts)
RECURSIVE join(_, _)
join(sep, parts) ==
  IF parts = <<>> THEN <<>>
  ELSE IF Len(parts) = 1 THEN parts[1]
  ELSE parts[1] \o sep \o join(sep, Tail(parts))

RECURSIVE concat(_)
concat(parts) == IF parts = <<>> THEN <<>> ELSE parts[1] \o concat(Tail(parts))

RECURSIVE sum(_)
sum(ns) == IF ns = <<>> THEN 0 ELSE ns[1] + sum(Tail(ns))

Reverse(s) == [i \in 1..Len(s) |-> s[Len(s) + 1 - i]]

(***************************************************************************)
(* The translation backend (an external service).  What it returns for a   *)
(* text is fixed by its dialect `mode`: it translates word by word ("a"    *)
(* to "A", "b" to "B"), drops the word "x" (no translation), and keeps,    *)
(* reverses, lengthens or fuses the words of the text.  Whether a call     *)
(* succeeds is the environment's choice (fails, resp).                     *)
(***************************************************************************)
Modes == {"word", "reverse", "expand", "fuse"}

TrChar(c) == IF c = "a" THEN "A" ELSE IF c = "b" THEN "B" ELSE c

TrWord(w) == [i \in 1..Len(w) |-> TrChar(w[i])]

RECURSIVE TrWords(_)
TrWords(ws) ==
  IF ws = <<>> THEN <<>>
  ELSE IF ws[1] = <<"x">> THEN TrWords(Tail(ws))
  ELSE <<TrWord(ws[1])>> \o TrWords(Tail(ws))

RECURSIVE Interleave(_, _)
Interleave(ws, w) ==
  IF ws = <<>> THEN <<>> ELSE <<ws[1], w>> \o Interleave(Tail(ws), w)

Backend(m, text) ==
  LET tw == TrWords(split(text))
  IN  CASE m = "word"    -> join(<<" ">>, tw)
        [] m = "reverse" -> join(<<" ">>, Reverse(tw))
        [] m = "expand"  -> join(<<" ">>, Interleave(tw, <<"o">>))
        [] m = "fuse"    -> concat(tw)

(***************************************************************************)
(* AzureTranslationProvider.translate_texts                                *)
(*                                                                         *)
(* rsp[c] is what the backend does with the c-th request: "full" (one      *)
(* result per item), "blank" (one result per item, none carrying a         *)
(* translation), "short" (the result of the last item is missing) or       *)
(* "raise" (the call raises).                                              *)
(***************************************************************************)
AzureOutcomes == {"full", "blank", "short", "raise"}

NChunks(txs) == (Len(txs) + chunk_size - 1) \div chunk_size

ChunkOf(txs, c) ==
  SubSeq(txs, (c - 1) * chunk_size + 1, Min(Len(txs), c * chunk_size))

\* A variant that hands the results of a request back in reverse order.
AzureResponse_Reversed(m, chunk, outcome) ==
  CASE outcome = "full"  -> Reverse([k \in 1..Len(chunk) |-> Backend(m, chunk[k])])
    [] outcome = "blank" -> [k \in 1..Len(chunk) |-> <<>>]
    [] outcome = "short" -> [k \in 1..(Len(chunk) - 1) |-> Backend(m, chunk[k])]
    [] OTHER             -> <<>>

AzureResponse(m, chunk, outcome) ==
  CASE outcome = "full"  -> [k \in 1..Len(chunk) |-> Backend(m, chunk[k])]
    [] outcome = "blank" -> [k \in 1..Len(chunk) |-> <<>>]
    [] outcome = "short" -> [k \in 1..(Len(chunk) - 1) |-> Backend(m, chunk[k])]
    [] OTHER             -> <<>>

RECURSIVE AzureLoop(_, _, _, _, _)
AzureLoop(txs, m, rsp, c, translated) ==
  IF c > NChunks(txs) THEN [status |-> "returned", value |-> translated]
  ELSE IF rsp[c] = "raise" THEN [status |-> "raised", value |-> <<>>]
  ELSE AzureLoop(txs, m, rsp, c + 1,
                 translated \o AzureResponse(m, ChunkOf(txs, c), rsp[c]))

Azure_translate_texts(txs, m, rsp) ==
  IF txs = <<>> THEN [status |-> "returned", value |-> <<>>]
  ELSE AzureLoop(txs, m, rsp, 1, <<>>)

(***************************************************************************)
(* LibreTranslateProvider.translate_text and translate_texts               *)
(*                                                                         *)
(* fl is the set of backend calls (numbered from 1 in the order they are   *)
(* made) that fail: the server is unreachable, times out or answers with   *)
(* an HTTP error, and translate_text raises.                               *)
(***************************************************************************)
EndsWithPunct(text) ==
  text # <<>> /\ text[Len(text)] \in {".", "!", "?", ":", ";", "\n"}

is_short(text) ==
  /\ Len(text) < ShortLen
  /\ ~EndsWithPunct(text)
  /\ Len(split(text)) <= ShortWords

\* Index of the last fragment of the group that starts at fragment i (the
\* inner while loop); n is the size of the group so far.
RECURSIVE GroupEnd(_, _, _)
GroupEnd(txs, i, n) ==
  IF i + 1 <= Len(txs) /\ n < max_group_size
     /\ strip(txs[i + 1]) # <<>> /\ is_short(strip(txs[i + 1]))
  THEN GroupEnd(txs, i + 1, n + 1)
  ELSE i

(***************************************************************************)
(* Python's float arithmetic, as far as the distribution uses it: a        *)
(* positive float is [m |-> digits, e |-> exponent], the number with the   *)
(* binary digits m (most significant first, at most float_digits of them)  *)
(* times 2^e; zero has no digits.  Every operation rounds its exact result *)
(* to float_digits digits, to the nearest, ties to the even digit.  Long   *)
(* numbers are handled in groups of limb_digits digits.                    *)
(***************************************************************************)
limb_base == 2 ^ limb_digits

\* The binary digits of a natural number, most significant first.
RECURSIVE digits(_)
digits(n) == IF n = 0 THEN <<>> ELSE Append(digits(n \div 2), n % 2)

\* The w last binary digits of n.
fixed(n, w) == [i \in 1..w |-> (n \div 2 ^ (w - i)) % 2]

\* The natural number with the binary digits b.
RECURSIVE number(_)
number(b) ==
  IF b = <<>> THEN 0 ELSE 2 * number(SubSeq(b, 1, Len(b) - 1)) + b[Len(b)]

zeros(n) == [i \in 1..n |-> 0]

\* b without its leading zeros.
normal(b) ==
  IF \A i \in DOMAIN b : b[i] = 0 THEN <<>>
  ELSE SubSeq(b, SetMin({i \in DOMAIN b : b[i] = 1}), Len(b))

\* b + 1
increment(b) ==
  IF \A i \in DOMAIN b : b[i] = 1 THEN <<1>> \o zeros(Len(b))
  ELSE LET z == SetMax({i \in DOMAIN b : b[i] = 0})
       IN  [i \in DOMAIN b |-> IF i < z THEN b[i] ELSE IF i = z THEN 1 ELSE 0]

\* The remainder of a * limb_base^j divided by d.
RECURSIVE remainder(_, _, _)
remainder(a, d, j) ==
  IF j = 0 THEN a % d ELSE (remainder(a, d, j - 1) * limb_base) % d

\* The digits of the quotient of a * limb_base^k by d.
quotient(a, d, k) ==
  digits(a \div d)
    \o concat([j \in 1..k |->
                 fixed((remainder(a, d, j - 1) * limb_base) \div d, limb_digits)])

\* The k groups of limb_digits digits of b, as numbers.
limbs(b, k) ==
  LET padded == zeros(k * limb_digits - Len(b)) \o b
  IN  [j \in 1..k |->
         number(SubSeq(padded, (j - 1) * limb_digits + 1, j * limb_digits))]

\* The carry into group j when the groups L are multiplied by n.
RECURSIVE carry(_, _, _)
carry(L, n, j) ==
  IF j = Len(L) THEN 0 ELSE (L[j + 1] * n + carry(L, n, j + 1)) \div limb_base

\* The digits of (digits b) * n.
times(b, n) ==
  LET k == (Len(b) + limb_digits - 1) \div limb_digits
      L == limbs(b, k)
  IN  IF k = 0 THEN <<>>
      ELSE digits(carry(L, n, 0))
             \o concat([j \in 1..k |->
                          fixed((L[j] * n + carry(L, n, j)) % limb_base, limb_digits)])

\* The float nearest to (digits b) * 2^e, plus something below one unit of
\* the last digit when inexact holds.
round(b, e, inexact) ==
  LET nb == normal(b)
  IN  IF Len(nb) <= float_digits THEN [m |-> nb, e |-> e]
      ELSE
        LET kept == SubSeq(nb, 1, float_digits)
            rest == SubSeq(nb, float_digits + 1, Len(nb))
            more == inexact \/ \E i \in 2..Len(rest) : rest[i] = 1
            up   == rest[1] = 1 /\ (more \/ kept[float_digits] = 1)
            m    == IF up THEN increment(kept) ELSE kept
        IN  IF Len(m) > float_digits
            THEN [m |-> SubSeq(m, 1, float_digits), e |-> e + Len(rest) + 1]
            ELSE [m |-> m, e |-> e + Len(rest)]

\* a / b for integers a >= 0 and 0 < b < limb_base
truediv(a, b) ==
  LET k == (float_digits + 2 * limb_digits - 1) \div limb_digits
  IN  round(quotient(a, b, k), -(k * limb_digits),
            remainder(a, b, k) # 0)

\* n * x for an integer 0 <= n < limb_base and a float x
mul(n, x) == round(times(x.m, n), x.e, FALSE)

\* int(x)
int(x) ==
  IF x.e >= 0 THEN number(x.m \o zeros(x.e))
  ELSE IF -x.e >= Len(x.m) THEN 0
  ELSE number(SubSeq(x.m, 1, Len(x.m) + x.e))

\* int(len(translated_words) * proportion), proportion = length / total
Proportion(nwords, length, total) == int(mul(nwords, truediv(length, total)))

\* A variant of the distribution without the rule that the last fragment
\* of the group takes all remaining words.
RECURSIVE Distribute_NoRemainder(_, _, _, _, _, _, _)
Distribute_NoRemainder(txs, first, group_lengths, translated_words, k, word_idx, translated) ==
  IF k > Len(group_lengths) THEN translated
  ELSE
    LET orig_idx == first + k - 1
        nw == Len(translated_words)
    IN  IF word_idx >= nw
        THEN Distribute_NoRemainder(txs, first, group_lengths, translated_words,
                                    k + 1, word_idx,
                                    [translated EXCEPT ![orig_idx] = txs[orig_idx]])
        ELSE
          LET prop == Max(1, Proportion(nw, group_lengths[k], sum(group_lengths)))
              num_words == Min(prop, nw - word_idx)
          IN  Distribute_NoRemainder(txs, first, group_lengths, translated_words,
                                     k + 1, word_idx + num_words,
                                     [translated EXCEPT ![orig_idx] =
                                        join(<<" ">>, SubSeq(translated_words,
                                                             word_idx + 1,
                                                             word_idx + num_words))])

\* The proportional distribution of the words of a grouped translation:
\* the for loop over group_indices, from position k of the group on.
RECURSIVE Distribute(_, _, _, _, _, _, _)
Distribute(txs, first, group_lengths, translated_words, k, word_idx, translated) ==
  IF k > Len(group_lengths) THEN translated
  ELSE
    LET orig_idx == first + k - 1
        nw == Len(translated_words)
    IN  IF word_idx >= nw
        THEN Distribute(txs, first, group_lengths, translated_words, k + 1,
                        word_idx, [translated EXCEPT ![orig_idx] = txs[orig_idx]])
        ELSE
          LET prop == Max(1, Proportion(nw, group_lengths[k], sum(group_lengths)))
              want == IF k = Len(group_lengths) THEN nw - word_idx ELSE prop
              num_words == Min(want, nw - word_idx)
          IN  IF num_words > 0
              THEN Distribute(txs, first, group_lengths, translated_words, k + 1,
                              word_idx + num_words,
                              [translated EXCEPT ![orig_idx] =
                                 join(<<" ">>, SubSeq(translated_words,
                                                      word_idx + 1,
                                                      word_idx + num_words))])
              ELSE Distribute(txs, first, group_lengths, translated_words, k + 1,
                              word_idx,
                              [translated EXCEPT ![orig_idx] = txs[orig_idx]])

\* translate_text: "" for a blank text without any request; otherwise one
\* backend call, which raises when the call fails.
Libre_translate_text(text, m, failed) ==
  IF strip(text) = <<>> THEN [status |-> "returned", value |-> <<>>]
  ELSE IF failed THEN [status |-> "raised", value |-> <<>>]
  ELSE [status |-> "returned", value |-> Backend(m, text)]

\* One entry of the record of backend calls: what was sent, for which
\* fragments (first..last), and whether the call failed.
Call(kind, first, last, text, failed) ==
  [kind |-> kind, first |-> first, last |-> last, text |-> text, failed |-> failed]

\* except: translated[orig_idx] = str(texts[orig_idx])
RetryFallback(txs, orig_idx) == txs[orig_idx]

\* The individual retries of the fragments first..last after the grouped
\* call failed: the retry of the k-th fragment is backend call ncall + k.
GroupRetry(txs, first, last, m, fl, ncall, translated) ==
  [j \in 1..Len(txs) |->
     IF first <= j /\ j <= last
     THEN LET r == Libre_translate_text(txs[j], m, (ncall + (j - first + 1)) \in fl)
          IN  IF r.status = "raised" THEN RetryFallback(txs, j) ELSE r.value
     ELSE translated[j]]

GroupRetryCalls(txs, first, last, fl, ncall) ==
  [k \in 1..(last - first + 1) |->
     Call("retry", first + k - 1, first + k - 1, txs[first + k - 1],
          (ncall + k) \in fl)]

\* except: translated[i] = text (the long fragment's call raised)
LongFallback(txs, i) == strip(txs[i])

RECURSIVE LibreLoop(_, _, _, _, _, _)
LibreLoop(txs, i, translated, calls, m, fl) ==
  IF i > Len(txs)
  THEN [status |-> "returned", value |-> translated, calls |-> calls]
  ELSE
    LET text == strip(txs[i])
        ncall == Len(calls)
    IN  IF text = <<>> THEN LibreLoop(txs, i + 1, translated, calls, m, fl)
        ELSE IF is_short(text)
        THEN
          LET last == GroupEnd(txs, i, 1)
              n == last - i + 1
              group_texts == [k \in 1..n |-> strip(txs[i + k - 1])]
              group_lengths == [k \in 1..n |-> Len(split(group_texts[k]))]
              grouped_text == join(<<" ">>, group_texts)
              r == Libre_translate_text(grouped_text, m, (ncall + 1) \in fl)
              call == Call("group", i, last, grouped_text, (ncall + 1) \in fl)
          IN  IF r.status = "raised"
              THEN LibreLoop(txs, last + 1,
                             GroupRetry(txs, i, last, m, fl, ncall + 1, translated),
                             Append(calls, call)
                               \o GroupRetryCalls(txs, i, last, fl, ncall + 1),
                             m, fl)
              ELSE
                LET translated_words == split(r.value)
                IN  IF sum(group_lengths) > 0 /\ Len(translated_words) > 0
                    THEN LibreLoop(txs, last + 1,
                                   Distribute(txs, i, group_lengths, translated_words,
                                              1, 0, translated),
                                   Append(calls, call), m, fl)
                    ELSE LibreLoop(txs, last + 1,
                                   [j \in 1..Len(txs) |->
                                      IF i <= j /\ j <= last THEN txs[j]
                                      ELSE translated[j]],
                                   Append(calls, call), m, fl)
        ELSE
          LET r == Libre_translate_text(text, m, (ncall + 1) \in fl)
          IN  LibreLoop(txs, i + 1,
                        [translated EXCEPT ![i] =
                           IF r.status = "raised" THEN LongFallback(txs, i)
                           ELSE r.value],
                        Append(calls, Call("long", i, i, text, (ncall + 1) \in fl)),
                        m, fl)

Libre_translate_texts(txs, m, fl) ==
  IF txs = <<>> THEN [status |-> "returned", value |-> <<>>, calls |-> <<>>]
  ELSE LibreLoop(txs, 1, [j \in 1..Len(txs) |-> <<>>], <<>>, m, fl)

(***************************************************************************)
(* The provider specification: a list of texts, then one call of           *)
(* translate_texts on the chosen provider.                                 *)
(***************************************************************************)
T_empty == <<>>
T_a == <<"a">>
T_ab == <<" ", "a", " ", "b">>
T_x == <<"x">>
T_padsent == <<" ", "a", ".", " ">>
T_four == <<"a", " ", "b", " ", "a", " ", "b">>
T_long == [i \in 1..ShortLen |-> "a"]

InputTexts ==
  {T_empty, T_a, T_ab, T_x, T_padsent, T_four, T_long}

TextLists == UNION {[1..n -> InputTexts] : n \in 0..MaxTexts}

\* The backend calls translate_texts makes at most on txs: those it makes
\* when every call fails (each grouped call is then followed by its retries).
MaxCalls(txs) == Len(Libre_translate_texts(txs, "word", 1..(2 * Len(txs))).calls)

\* provider.lower().strip(), for the spellings of a provider's name that
\* the model knows; any other name is taken to be in lower case and
\* without surrounding whitespace already.
lower_strip(prov) ==
  CASE prov \in {"azure", "Azure", "AZURE", " azure ", " Azure "} -> "azure"
    [] prov \in {"libretranslate", "LibreTranslate", "LIBRETRANSLATE",
                 " libretranslate ", " LibreTranslate "} -> "libretranslate"
    [] OTHER -> prov

\* get_translation_provider: the provider of that name, HTTPException(400)
\* for a name that is not supported, HTTPException(500) from
\* AzureTranslationProvider.__init__ when the credentials are not set.
get_translation_provider(prov, configured) ==
  LET name == lower_strip(prov)
  IN  IF name = "azure"
      THEN IF configured THEN [status |-> "returned", name |-> name, code |-> 0]
           ELSE [status |-> "raised", name |-> name, code |-> 500]
      ELSE IF name = "libretranslate"
      THEN [status |-> "returned", name |-> name, code |-> 0]
      ELSE [status |-> "raised", name |-> name, code |-> 400]

\* translate_texts(texts, target_lang, provider=provider): the provider's
\* translate_texts under the environment env = [rsp, fl, configured].  code
\* is the status code of the HTTPException when the call raised.
translate_texts(prov, txs, m, env) ==
  LET translation_provider == get_translation_provider(prov, env.configured)
  IN  IF translation_provider.status = "raised"
      THEN [status |-> "raised", value |-> <<>>, calls |-> <<>>,
            code |-> translation_provider.code]
      ELSE IF translation_provider.name = "azure"
      THEN LET r == Azure_translate_texts(txs, m, env.rsp)
           IN  [status |-> r.status, value |-> r.value, calls |-> <<>>,
                code |-> IF r.status = "raised" THEN 500 ELSE 0]
      ELSE LET r == Libre_translate_texts(txs, m, env.fl)
           IN  [status |-> r.status, value |-> r.value, calls |-> r.calls,
                code |-> IF r.status = "raised" THEN 500 ELSE 0]

\* The names a caller gives for the provider: the two supported ones, one
\* of them in another spelling, and one that is not supported.
ProviderNames ==
  {"azure", "libretranslate", " Azure ", " LibreTranslate ", "google"}

AdapterInit ==
  /\ provider \in ProviderNames
  /\ texts \in TextLists
  /\ mode \in Modes
  /\ fails = {}
  /\ resp = <<>>
  /\ ret = [status |-> "pending", value |-> <<>>]
  /\ sent = <<>>
  /\ path = "none"
  /\ GeomIdle
  /\ PipeIdle
  /\ UnitIdle

\* The characters of a request, and what the backend does with a request
\* that exceeds its limit of characters per request: it refuses it.
Chars(chunk) == sum([k \in 1..Len(chunk) |-> Len(chunk[k])])

Accepts(txs, rsp) ==
  \A c \in DOMAIN rsp :
    Chars(ChunkOf(txs, c)) > azure_char_limit => rsp[c] = "raise"

AzureTranslateTexts ==
  /\ lower_strip(provider) = "azure"
  /\ ret.status = "pending"
  /\ \E rsp \in [1..NChunks(texts) -> AzureOutcomes] :
       /\ Accepts(texts, rsp)
       /\ resp' = rsp
       /\ ret' = Azure_translate_texts(texts, mode, rsp)
  /\ UNCHANGED <<provider, texts, mode, fails, sent>>
  /\ UNCHANGED <<path, geomVars, pipeVars, unitVars>>

LibreTranslateTexts ==
  /\ lower_strip(provider) = "libretranslate"
  /\ ret.status = "pending"
  /\ \E fl \in SUBSET (1..MaxCalls(texts)) :
       \E r \in {Libre_translate_texts(texts, mode, fl)} :
           /\ fl \subseteq 1..Len(r.calls)
           /\ fails' = fl
           /\ ret' = [status |-> r.status, value |-> r.value]
           /\ sent' = r.calls
  /\ UNCHANGED <<provider, texts, mode, resp>>
  /\ UNCHANGED <<path, geomVars, pipeVars, unitVars>>

\* translate_texts of the module ends in get_translation_provider: the
\* name is not supported, or the Azure credentials are not set.
NoProvider ==
  /\ ret.status = "pending"
  /\ \E configured \in BOOLEAN :
       LET r == translate_texts(provider, texts, mode,
                                [rsp |-> <<>>, fl |-> {}, configured |-> configured])
       IN  /\ get_translation_provider(provider, configured).status = "raised"
           /\ ret' = [status |-> r.status, value |-> r.value, code |-> r.code]
  /\ UNCHANGED <<provider, texts, mode, fails, resp, sent>>
  /\ UNCHANGED <<path, geomVars, pipeVars, unitVars>>

AdapterNext == AzureTranslateTexts \/ LibreTranslateTexts \/ NoProvider

vars == <<provider, texts, mode, fails, resp, ret, sent, path, frag, region,
          doc, pc, pg, pages_data, block_index, queue, log, out, faults,
          original_text_parts, translated_text_parts,
          font_files, cjk_font_path, font_embedded,
         page_links, span_rect, link_info, ocr_data, page_blocks, ocr_pc,
         paragraphs, text_chunks, chunk_pc,
         chat_sessions, pdf_data_storage, session_count, chat_reply,
         chat_prompt>>

SpecAdapter == AdapterInit /\ [][AdapterNext]_vars

(***************************************************************************)
(* One call of the Azure provider's translate_texts on a list of many or   *)
(* of long texts.                                                          *)
(***************************************************************************)
T_kilo == [i \in 1..KiloLen |-> "a"]

BulkLists ==
  {[i \in 1..n |-> T_a] : n \in 1..LargeFrags}
    \cup {[i \in 1..chunk_size |-> T_kilo]}

BulkInit ==
  /\ provider = "azure"
  /\ texts \in BulkLists
  /\ mode \in Modes
  /\ fails = {}
  /\ resp = <<>>
  /\ ret = [status |-> "pending", value |-> <<>>]
  /\ sent = <<>>
  /\ path = "none"
  /\ GeomIdle
  /\ PipeIdle
  /\ UnitIdle

BulkNext == AzureTranslateTexts

SpecBulk == BulkInit /\ [][BulkNext]_vars

\* C11: every request of the Azure provider carries at most chunk_size
\* texts and no more characters than the backend accepts in one request.
C11_RequestsBounded ==
  ret.status # "pending" =>
    \A c \in DOMAIN resp :
      /\ Len(ChunkOf(texts, c)) <= chunk_size
      /\ Chars(ChunkOf(texts, c)) <= azure_char_limit

(***************************************************************************)
(* The render region of a fragment.                                        *)
(*                                                                         *)
(* The code computes in floating point; here the numbers are exact         *)
(* fractions.  A bbox is in whole page units.  The region of a fragment    *)
(* whose original text has olen characters is in parts of a page unit,     *)
(* unit(olen) parts to the page unit, so that the quotient                 *)
(* len(translated) / max(1, len(original)), 1.05 * width, height * 0.1 and *)
(* the centre (y0 + y1) / 2 are whole numbers of parts.  len_ratio is the  *)
(* quotient clamped to [1.01, 1.05] (digital and PdfTranslator) or         *)
(* [1.01, 1.1] (scanned), in parts; cap is the upper limit in thousandths. *)
(***************************************************************************)
unit(olen) == 1000 * Max(1, olen)

len_ratio(cap, olen, tlen) ==
  Min(cap * Max(1, olen), Max(1010 * Max(1, olen), 1000 * tlen))

\* translate_digital_pdf_with_layout and PdfTranslator: horizontal
\* expansion, inward vertical margin, minimum height.
DigitalRegion(coords, olen, tlen) ==
  LET x0 == coords[1]  y0 == coords[2]  x1 == coords[3]  y1 == coords[4]
      u == unit(olen)
      width == x1 - x0
      height == y1 - y0
      h_expand == (len_ratio(1050, olen, tlen) - u) * width
      vertical_margin == Min((u \div 10) * height, 3 * u)
      ya == u * y0 + vertical_margin
      yb == u * y1 - vertical_margin
      y_center == (u \div 2) * (coords[2] + coords[4])
  IN  IF yb - ya < u * MinHeight
      THEN <<u * x0, y_center - 5 * u, u * x1 + h_expand, y_center + 5 * u>>
      ELSE <<u * x0, ya, u * x1 + h_expand, yb>>

\* translate_scanned_pdf_with_layout: horizontal expansion, outward padding
\* clamped to the page, minimum height clamped to the page.
ScannedRegion(coords, olen, tlen, pw, ph) ==
  LET x0 == coords[1]  y0 == coords[2]  x1 == coords[3]  y1 == coords[4]
      u == unit(olen)
      width == x1 - x0
      height == y1 - y0
      h_expand == (len_ratio(1100, olen, tlen) - u) * width
      padding == Max(2 * u, (u \div 10) * height)
      xa == Max(0, u * x0 - padding)
      ya == Max(0, u * y0 - padding)
      xb == Min(u * pw, u * x1 + h_expand + padding)
      yb == Min(u * ph, u * y1 + padding)
      y_center == (u \div 2) * (coords[2] + coords[4])
  IN  IF yb - ya < u * MinHeight
      THEN <<xa, Max(0, y_center - 5 * u), xb, Min(u * ph, y_center + 5 * u)>>
      ELSE <<xa, ya, xb, yb>>

RenderRegion(p, coords, olen, tlen, pw, ph) ==
  IF p = "scanned" THEN ScannedRegion(coords, olen, tlen, pw, ph)
  ELSE DigitalRegion(coords, olen, tlen)

(***************************************************************************)
(* The geometry specification: a fragment whose bbox lies inside the page, *)
(* then the computation of its render region on one of the paths.          *)
(***************************************************************************)
PageW == 60
PageH == 40

Paths == {"digital", "scanned", "pdftranslator"}

XGrid == {0, 20, PageW}
YGrid == {0, 2, 8, 20, PageH - 8, PageH - 2, PageH}

\* Lengths of the original and of the translated text: short ones, for
\* which the quotient is clamped, and two long ones a character apart.
TextLengths == 1..MaxLen \cup {LongLen, LongLen + 1}

GeomInit ==
  /\ path \in Paths
  /\ \E x0, x1 \in XGrid : \E y0, y1 \in YGrid :
       \E ol, tl \in TextLengths :
         /\ x0 < x1 /\ y0 < y1
         /\ frag = [coords |-> <<x0, y0, x1, y1>>, olen |-> ol, tlen |-> tl]
  /\ region = <<>>
  /\ provider = "none" /\ texts = <<>> /\ mode = "word" /\ fails = {}
  /\ resp = <<>> /\ ret = [status |-> "pending", value |-> <<>>] /\ sent = <<>>
  /\ PipeIdle
  /\ UnitIdle

ComputeRegion ==
  /\ region = <<>>
  /\ region' = RenderRegion(path, frag.coords, frag.olen, frag.tlen, PageW, PageH)
  /\ UNCHANGED <<path, frag>>
  /\ UNCHANGED <<adapterVars, pipeVars, unitVars>>

GeomNext == ComputeRegion

SpecGeom == GeomInit /\ [][GeomNext]_vars

(***************************************************************************)
(* The layout pipelines: translate_digital_pdf_with_layout ("digital"),    *)
(* translate_scanned_pdf_with_layout ("scanned") and PdfTranslator         *)
(* ("pdftranslator").                                                      *)
(*                                                                         *)
(* A document is a sequence of pages and a page a sequence of spans (for   *)
(* the scanned path: of OCR words, each on a line of its own, so that the  *)
(* line grouping of the OCR extraction builds one block per word).  A      *)
(* block of pages_data carries the stripped text, the bold flag and, for   *)
(* PdfTranslator, the translation slot block[2], which starts as None.     *)
(***************************************************************************)
None == <<"None">>

T_blank == <<" ">>

\* One ideograph (U+5B57).  The backend leaves it as it is.  A span has its
\* text, the bold flag, whether a link lies over it, and the kind of the
\* region that the digital pipelines compute for its bbox: "inside" the
\* page, "outside" (the bbox touches the edge of the page and the region
\* leaves the page, SpecGeom), or "empty" (the bbox has no width, and so has
\* the region).  The scanned pipeline pads and clamps: its regions are
\* inside the page and not empty.
T_cjk == <<"U+5B57">>

S_a       == [text |-> T_a,     bold |-> FALSE, link |-> FALSE, rect |-> "inside"]
S_ab      == [text |-> T_ab,    bold |-> TRUE,  link |-> FALSE, rect |-> "inside"]
S_x       == [text |-> T_x,     bold |-> FALSE, link |-> FALSE, rect |-> "inside"]
S_blank   == [text |-> T_blank, bold |-> FALSE, link |-> FALSE, rect |-> "inside"]
S_link    == [text |-> T_a,     bold |-> FALSE, link |-> TRUE, rect |-> "inside"]
S_cjk     == [text |-> T_cjk,   bold |-> FALSE, link |-> FALSE, rect |-> "inside"]
S_cjklink == [text |-> T_cjk,   bold |-> FALSE, link |-> TRUE, rect |-> "inside"]
S_cjkedge == [text |-> T_cjk,   bold |-> FALSE, link |-> FALSE, rect |-> "outside"]
S_cjkempty == [text |-> T_cjk,  bold |-> FALSE, link |-> FALSE, rect |-> "empty"]

PageKinds ==
  { <<>>, <<S_blank>>, <<S_a>>, <<S_x, S_a>>, <<S_ab, S_a>>, <<S_a, S_blank, S_x>>,
    <<S_cjk, S_cjk>>, <<S_link, S_cjklink>>, <<S_cjkedge>>, <<S_cjkempty>> }

\* ord(char) for the characters of the model's texts.
CodePoint(c) ==
  CASE c = " " -> 32 [] c = "." -> 46 [] c = "A" -> 65 [] c = "B" -> 66
    [] c = "a" -> 97 [] c = "b" -> 98 [] c = "o" -> 111 [] c = "x" -> 120
    [] c = "\t" -> 9 [] c = "\n" -> 10 [] c = "\f" -> 12 [] c = "\r" -> 13
    [] c = "U+00A0" -> 160 [] c = "U+3000" -> 12288
    [] c = "U+5B57" -> 23383 [] c = "U+6D4B" -> 27979 [] c = "U+8BD5" -> 35797
    [] OTHER -> 63

\* _contains_cjk_characters
contains_cjk_characters(text) ==
  \E i \in 1..Len(text) :
    LET code_point == CodePoint(text[i])
    IN  \/ 19968 <= code_point /\ code_point <= 40959
        \/ 13312 <= code_point /\ code_point <= 19903
        \/ 12352 <= code_point /\ code_point <= 12447
        \/ 12448 <= code_point /\ code_point <= 12543
        \/ 44032 <= code_point /\ code_point <= 55215

\* The font path the run settles on before the page loop: a path when the
\* first cjk_sample results hold a CJK character and a font file exists.
FontPath(p, translated_blocks, files) ==
  IF /\ p # "pdftranslator"
     /\ contains_cjk_characters(
          concat(SubSeq(translated_blocks, 1, Min(cjk_sample, Len(translated_blocks)))))
     /\ files
  THEN "file" ELSE "none"

Documents == UNION {[1..n -> PageKinds] : n \in 1..MaxPages}

\* The span loop of the extraction: strip, skip what is blank.
ExtractBlocks(p, spans) ==
  LET kept == SelectSeq(spans, LAMBDA s : strip(s.text) # <<>>)
  IN  [k \in 1..Len(kept) |->
         [text |-> strip(kept[k].text),
          bold |-> IF p = "scanned" THEN FALSE ELSE kept[k].bold,
          link |-> IF p = "scanned" THEN FALSE ELSE kept[k].link,
          rect |-> IF p = "scanned" THEN "inside" ELSE kept[k].rect,
          tr   |-> None]]

\* What can happen while one page is extracted.  "raise": get_text (digital,
\* PdfTranslator) or the rendering of the page image (scanned) raises;
\* "ocr": pytesseract raises another exception than TesseractNotFoundError;
\* "tesseract": pytesseract raises TesseractNotFoundError.
ExtractOutcomes(p) ==
  IF p = "scanned" THEN {"ok", "ocr", "tesseract", "raise"} ELSE {"ok", "raise"}

RECURSIVE Flatten(_)
Flatten(pages) ==
  IF pages = <<>> THEN <<>>
  ELSE [k \in 1..Len(Head(pages)) |-> Head(pages)[k].text] \o Flatten(Tail(pages))

\* Number of blocks on the pages before page p.
BlocksBefore(pages, p) == Len(Flatten(SubSeq(pages, 1, p - 1)))

\* The environments of one translate_texts call that cost at most n faults.
TranslateEnvs(prov, txs, n) ==
  IF lower_strip(prov) = "azure"
  THEN { [rsp |-> rsp, fl |-> {}, configured |-> TRUE] :
           rsp \in { f \in [1..NChunks(txs) -> AzureOutcomes] :
                       /\ Accepts(txs, f)
                       /\ Cardinality({c \in DOMAIN f : f[c] # "full"}) <= n } }
       \cup (IF n >= 1 THEN {[rsp |-> <<>>, fl |-> {}, configured |-> FALSE]}
             ELSE {})
  ELSE IF lower_strip(prov) = "libretranslate"
  THEN { [rsp |-> <<>>, fl |-> fl, configured |-> TRUE] :
           fl \in { g \in SUBSET (1..MaxCalls(txs)) : Cardinality(g) <= n } }
  ELSE {[rsp |-> <<>>, fl |-> {}, configured |-> TRUE]}

EnvCost(env) ==
  Cardinality({c \in DOMAIN env.rsp : env.rsp[c] # "full"}) + Cardinality(env.fl)

\* PdfTranslator._translate_pages_data: zip(text_indices, translated_texts)
\* fills block[2] of the first len(translated_texts) blocks.
AssignTranslations(pages, translated) ==
  [p \in 1..Len(pages) |->
     [k \in 1..Len(pages[p]) |->
        LET i == BlocksBefore(pages, p) + k
        IN  IF i <= Len(translated)
            THEN [pages[p][k] EXCEPT !.tr = translated[i]]
            ELSE pages[p][k]]]

\* PdfTranslator._translate_pages_data, except branch: block[2] = block[0].
AssignOriginals(pages) ==
  [p \in 1..Len(pages) |->
     [k \in 1..Len(pages[p]) |-> [pages[p][k] EXCEPT !.tr = pages[p][k].text]]]

\* A variant that reads translated_blocks one position too far.
translated_text_Shifted(p, block, translated_blocks, index) ==
  IF p = "pdftranslator"
  THEN IF block.tr # None THEN block.tr ELSE block.text
  ELSE IF index + 1 < Len(translated_blocks) THEN translated_blocks[index + 2]
       ELSE block.text

\* The text the first pass takes for block k of a page: translated_blocks
\* at the running block index when that index exists, else the original
\* (digital, scanned); block[2] unless it is None (PdfTranslator).
translated_text(p, block, translated_blocks, index) ==
  IF p = "pdftranslator"
  THEN IF block.tr # None THEN block.tr ELSE block.text
  ELSE IF index < Len(translated_blocks) THEN translated_blocks[index + 1]
       ELSE block.text

\* The first pass over the blocks of a page: the entries that are marked
\* (digital, PdfTranslator) or covered (scanned), in block order.  The
\* digital and the scanned pass skip a block whose text is blank.
FirstPass(p, blocks, translated_blocks, index) ==
  LET entry(k) == [k    |-> k,
                   bold |-> blocks[k].bold,
                   link |-> blocks[k].link,
                   rect |-> blocks[k].rect,
                   text |-> translated_text(p, blocks[k], translated_blocks,
                                            index + k - 1)]
      all == [k \in 1..Len(blocks) |-> entry(k)]
  IN  IF p = "pdftranslator" THEN all
      ELSE SelectSeq(all, LAMBDA e : strip(e.text) # <<>>)

\* A variant of the insertion order that keeps the extraction order.
InsertOrder_Extraction(entries) == entries

\* normal_blocks + bold_blocks
InsertOrder(entries) ==
  SelectSeq(entries, LAMBDA e : ~e.bold) \o SelectSeq(entries, LAMBDA e : e.bold)

Event(op, p, k, text) == [op |-> op, page |-> p, k |-> k, text |-> text]

\* A variant of the first pass that applies the redactions after each mark.
MarkEvents_Incremental(op, p, entries) ==
  [j \in 1..(2 * Len(entries)) |->
     IF j % 2 = 1
     THEN Event(op, p, entries[(j + 1) \div 2].k, entries[(j + 1) \div 2].text)
     ELSE Event("apply", p, 0, <<>>)]

\* A variant of the first pass that inserts each text right after its mark.
MarkEvents_Interleaved(op, p, entries) ==
  [j \in 1..(2 * Len(entries)) |->
     IF j % 2 = 1
     THEN Event(op, p, entries[(j + 1) \div 2].k, entries[(j + 1) \div 2].text)
     ELSE Event("htmlbox", p, entries[j \div 2].k, entries[j \div 2].text)]

\* The marks (or covers) of the first pass, in block order.
MarkEvents(op, p, entries) ==
  [j \in 1..Len(entries) |-> Event(op, p, entries[j].k, entries[j].text)]

\* What can happen in page.apply_redactions: "ok"; "fail" (it raises);
\* "retry_ok" and "retry_fail" (the call with images= raises AttributeError
\* or TypeError before anything is applied, and the call without the
\* parameter succeeds or raises).
ApplyOutcomes == {"ok", "retry_ok", "retry_fail", "fail"}

\* The insertion methods tried in turn for a text without CJK characters.
InsertMethods(p) ==
  IF p = "pdftranslator" THEN <<"htmlbox", "text">>
  ELSE <<"htmlbox", "textbox", "text">>

Fault(at, p, what) == [at |-> at, page |-> p, what |-> what]

\* Number of things that have gone wrong in the environment so far.
Spent ==
  Len(faults) + Cardinality({c \in DOMAIN resp : resp[c] # "full"})
              + Cardinality(fails)

Running == [status |-> "running", code |-> 0]
Failed(code) == [status |-> "error", code |-> code]

\* The state in which a pipeline is entered.
RunInit ==
  /\ path \in Paths
  /\ mode = "word"
  /\ pc = "extract"
  /\ pg = 1
  /\ pages_data = <<>>
  /\ block_index = 0
  /\ queue = <<>>
  /\ log = <<>>
  /\ out = Running
  /\ faults = <<>>
  /\ original_text_parts = <<>>
  /\ translated_text_parts = <<>>
  /\ font_files \in BOOLEAN
  /\ cjk_font_path = "none"
  /\ font_embedded = {}
  /\ texts = <<>> /\ fails = {} /\ resp = <<>> /\ sent = <<>>
  /\ ret = [status |-> "pending", value |-> <<>>]
  /\ GeomIdle
  /\ UnitIdle

PipelineInit ==
  /\ provider \in {"azure", "libretranslate", "google"}
  /\ doc \in Documents
  /\ RunInit

\* How /translate answers when translate_scanned_pdf_with_layout raised an
\* exception that is no HTTPException: with the text-only translation; with
\* 400 when extract_text_from_scanned_pdf finds no text; with 500 when
\* Tesseract is missing or the translation fails; with 503 or 504 when
\* LibreTranslate cannot be reached or times out.
FallbackOutcomes(prov) ==
  {[status |-> "text_only", code |-> 200], Failed(400), Failed(500)}
    \cup (IF lower_strip(prov) = "libretranslate" THEN {Failed(503), Failed(504)}
          ELSE {})

\* One turn of the extraction loop.
ExtractPage ==
  /\ pc = "extract"
  /\ \E o \in ExtractOutcomes(path) :
       /\ o = "ok" \/ Spent < MaxFaults
       /\ faults' = IF o = "ok" THEN faults
                    ELSE Append(faults, Fault("extract", pg, o))
       /\ IF o \in {"ok", "ocr"}
          THEN /\ pages_data' = Append(pages_data,
                     IF o = "ok" THEN ExtractBlocks(path, doc[pg]) ELSE <<>>)
               /\ IF pg < Len(doc)
                  THEN pc' = "extract" /\ pg' = pg + 1
                  ELSE pc' = "translate" /\ pg' = 0
               /\ out' = out
          ELSE /\ pc' = "done"
               /\ out' \in IF path = "scanned" /\ o = "raise"
                            THEN FallbackOutcomes(provider)
                            ELSE {Failed(500)}
               \* _extract_text_with_pymupdf has appended the page's list
               \* before it loads the page
               /\ pages_data' = IF path = "pdftranslator"
                                THEN Append(pages_data, <<>>)
                                ELSE pages_data
               /\ pg' = pg
  /\ UNCHANGED <<doc, block_index, queue, log, path>>
  /\ UNCHANGED corpora
  /\ UNCHANGED fontVars
  /\ UNCHANGED <<adapterVars, geomVars, unitVars>>

\* The batch translation of all block texts.
Translate ==
  /\ pc = "translate"
  /\ LET block_texts == Flatten(pages_data)
     IN  /\ texts' = block_texts
         /\ IF block_texts = <<>>
            THEN /\ IF path = "pdftranslator"
                    THEN pc' = "page" /\ pg' = 1 /\ out' = out
                    ELSE pc' = "done" /\ pg' = pg /\ out' = Failed(400)
                 /\ UNCHANGED <<resp, fails, ret, sent, pages_data, faults>>
            ELSE \E env \in TranslateEnvs(provider, block_texts, MaxFaults - Spent) :
                   \E r \in {translate_texts(provider, block_texts, mode, env)} :
                     /\ env.fl \subseteq 1..Len(r.calls)
                     /\ resp' = env.rsp
                     /\ fails' = env.fl
                     /\ ret' = [status |-> r.status, value |-> r.value]
                     /\ sent' = r.calls
                     /\ IF path = "pdftranslator"
                        THEN /\ pages_data' =
                                  IF r.status = "raised"
                                  THEN AssignOriginals(pages_data)
                                  ELSE AssignTranslations(pages_data, r.value)
                             /\ pc' = "page" /\ pg' = 1 /\ out' = out
                        ELSE /\ pages_data' = pages_data
                             /\ IF r.status = "raised"
                                THEN pc' = "done" /\ pg' = pg /\ out' = Failed(r.code)
                                ELSE pc' = "page" /\ pg' = 1 /\ out' = out
                     /\ faults' = IF env.configured THEN faults
                                  ELSE Append(faults, Fault("translate", 0, "credentials"))
  /\ cjk_font_path' = IF ret'.status = "returned"
                       THEN FontPath(path, ret'.value, font_files)
                       ELSE "none"
  /\ UNCHANGED <<doc, block_index, queue, log, path, provider, mode>>
  /\ UNCHANGED <<font_files, font_embedded>>
  /\ UNCHANGED corpora
  /\ UNCHANGED <<geomVars, unitVars>>

\* `if not page_blocks: continue`
SkipPage ==
  /\ pc = "page"
  /\ pg <= Len(pages_data)
  /\ pages_data[pg] = <<>>
  /\ pg' = pg + 1
  /\ UNCHANGED <<doc, pc, pages_data, block_index, queue, log, out, faults, path>>
  /\ UNCHANGED corpora
  /\ UNCHANGED fontVars
  /\ UNCHANGED <<adapterVars, geomVars, unitVars>>

\* The first pass over a page: every block's region is marked for redaction
\* (digital, PdfTranslator) or covered with a white rectangle (scanned).
MarkPage ==
  /\ pc = "page"
  /\ pg <= Len(pages_data)
  /\ pages_data[pg] # <<>>
  /\ LET entries == FirstPass(path, pages_data[pg], ret.value, block_index)
         op == IF path = "scanned" THEN "cover" ELSE "mark"
         Originals(n) == [k \in 1..n |-> pages_data[pg][k].text]
         Translations(n) ==
           [k \in 1..n |-> translated_text(path, pages_data[pg][k], ret.value,
                                           block_index + k - 1)]
     IN  \/ /\ log' = log \o MarkEvents(op, pg, entries)
            /\ queue' = InsertOrder(entries)
            /\ block_index' = IF path = "pdftranslator" THEN block_index
                              ELSE block_index + Len(pages_data[pg])
            /\ original_text_parts' =
                 IF path = "pdftranslator" THEN original_text_parts
                 ELSE original_text_parts \o Originals(Len(pages_data[pg]))
            /\ translated_text_parts' =
                 IF path = "pdftranslator" THEN translated_text_parts
                 ELSE translated_text_parts \o Translations(Len(pages_data[pg]))
            /\ IF path # "scanned" THEN pc' = "apply" /\ pg' = pg
               ELSE IF entries = <<>> THEN pc' = "page" /\ pg' = pg + 1
               ELSE pc' = "insert" /\ pg' = pg
            /\ UNCHANGED <<out, faults>>
         \* new_page.draw_rect raises at the j-th block that is covered: the
         \* exception leaves translate_scanned_pdf_with_layout, and the
         \* endpoint answers with the text-only translation or an error.
         \/ /\ path = "scanned"
            /\ Spent < MaxFaults
            /\ \E j \in 1..Len(entries) :
                 /\ log' = log \o MarkEvents(op, pg, SubSeq(entries, 1, j - 1))
                              \o <<Event("cover_failed", pg, entries[j].k,
                                         entries[j].text)>>
                 /\ block_index' = block_index + entries[j].k
                 /\ original_text_parts' =
                      original_text_parts \o Originals(entries[j].k)
                 /\ translated_text_parts' =
                      translated_text_parts \o Translations(entries[j].k)
                 /\ faults' = Append(faults, Fault("cover", pg, entries[j].k))
            /\ queue' = <<>>
            /\ pc' = "done" /\ pg' = pg
            /\ out' \in FallbackOutcomes(provider)
         \* add_redact_annot raises at the j-th block that is marked: the
         \* exception leaves the pipeline, and the request ends with 500.
         \/ /\ path # "scanned"
            /\ Spent < MaxFaults
            /\ \E j \in 1..Len(entries) :
                 /\ log' = log \o MarkEvents(op, pg, SubSeq(entries, 1, j - 1))
                              \o <<Event("mark_failed", pg, entries[j].k,
                                         entries[j].text)>>
                 /\ block_index' = IF path = "pdftranslator" THEN block_index
                                   ELSE block_index + entries[j].k
                 /\ original_text_parts' =
                      IF path = "pdftranslator" THEN original_text_parts
                      ELSE original_text_parts \o Originals(entries[j].k)
                 /\ translated_text_parts' =
                      IF path = "pdftranslator" THEN translated_text_parts
                      ELSE translated_text_parts \o Translations(entries[j].k)
                 /\ faults' = Append(faults, Fault("mark", pg, entries[j].k))
            /\ queue' = <<>>
            /\ pc' = "done" /\ pg' = pg
            /\ out' = Failed(500)
  /\ UNCHANGED <<doc, pages_data, path>>
  /\ UNCHANGED fontVars
  /\ UNCHANGED <<adapterVars, geomVars, unitVars>>

\* The calls of page.apply_redactions for page p, each as an event: "apply"
\* for a call that returned, "apply_rejected" for the call with images= that
\* raised AttributeError or TypeError (the call without the parameter
\* follows), "apply_failed" for a call whose exception ends the run.
ApplyCalls(o, p) ==
  CASE o = "ok"         -> <<Event("apply", p, 0, <<>>)>>
    [] o = "retry_ok"   -> <<Event("apply_rejected", p, 0, <<>>),
                             Event("apply", p, 0, <<>>)>>
    [] o = "retry_fail" -> <<Event("apply_rejected", p, 0, <<>>),
                             Event("apply_failed", p, 0, <<>>)>>
    [] o = "fail"       -> <<Event("apply_failed", p, 0, <<>>)>>

\* try: try: page.apply_redactions(images=...) except (AttributeError,
\* TypeError): page.apply_redactions() except Exception: raise
ApplyRedactions ==
  /\ pc = "apply"
  /\ \E o \in ApplyOutcomes :
       /\ o = "ok" \/ Spent < MaxFaults
       /\ faults' = IF o = "ok" THEN faults
                    ELSE Append(faults, Fault("apply", pg, o))
       /\ log' = log \o ApplyCalls(o, pg)
       /\ IF o \in {"ok", "retry_ok"}
          THEN /\ out' = out
               /\ IF queue = <<>> THEN pc' = "page" /\ pg' = pg + 1
                  ELSE pc' = "insert" /\ pg' = pg
          ELSE /\ out' = Failed(500)
               /\ pc' = "done" /\ pg' = pg
  /\ UNCHANGED <<doc, pages_data, block_index, queue, path>>
  /\ UNCHANGED corpora
  /\ UNCHANGED fontVars
  /\ UNCHANGED <<adapterVars, geomVars, unitVars>>

(***************************************************************************)
(* The insertion of one fragment.  A run is one way the PyMuPDF calls of   *)
(* the insertion can go: ev lists the calls in order, each as an event      *)
(* named after the call when it placed the text and after the call with    *)
(* _failed (it raised) or _zero (insert_textbox placed nothing) otherwise;  *)
(* bad tells that some call did not succeed.                               *)
(***************************************************************************)
FailedOp(op) ==
  CASE op = "htmlbox"         -> "htmlbox_failed"
    [] op = "textbox"         -> "textbox_failed"
    [] op = "text"            -> "text_failed"
    [] op = "textbox_font"    -> "textbox_font_failed"
    [] op = "text_font"       -> "text_font_failed"
    [] op = "textbox_builtin" -> "textbox_builtin_failed"
    [] op = "text_builtin"    -> "text_builtin_failed"
    [] op = "link"            -> "link_failed"
    [] op = "embed"           -> "embed_failed"
    [] op = "test"            -> "test_failed"

Nothing == {[ev |-> <<>>, bad |-> FALSE]}

\* First one run of A, then one of B.
Then(A, B) ==
  {[ev |-> a.ev \o b.ev, bad |-> a.bad \/ b.bad] : a \in A, b \in B}

\* One call that succeeds or raises.
Call1(op, p, k, text) ==
  { [ev |-> <<Event(op, p, k, text)>>, bad |-> FALSE],
    [ev |-> <<Event(FailedOp(op), p, k, text)>>, bad |-> TRUE] }

\* try ops[1] except: try ops[2] except: ... : the first n calls raise.
Chain(ops, p, k, text) ==
  { [ev  |-> [j \in 1..n |-> Event(FailedOp(ops[j]), p, k, text)]
               \o (IF n < Len(ops) THEN <<Event(ops[n + 1], p, k, text)>>
                   ELSE <<>>),
     bad |-> n > 0] : n \in 0..Len(ops) }

\* The names of the two insertions with a font, for the embedded font
\* ("file") and for the built-in font taken when the embedding raised.
BoxOp(font)   == IF font = "file" THEN "textbox_font" ELSE "textbox_builtin"
PointOp(font) == IF font = "file" THEN "text_font" ELSE "text_builtin"
ZeroOp(font)  == IF font = "file" THEN "textbox_font_zero" ELSE "textbox_builtin_zero"

\* The test string of the embedding (U+6D4B U+8BD5).
T_test == <<"U+6D4B", "U+8BD5">>

\* A variant of the embedding that does not look at the flag of the page.
EmbedRuns_Always(p, flagged) ==
  { [ev |-> <<Event("embed", p, 0, <<>>), Event("test", p, 0, T_test)>>,
     bad |-> FALSE, font |-> "file", flag |-> TRUE],
    [ev |-> <<Event("embed", p, 0, <<>>), Event("test_failed", p, 0, T_test)>>,
     bad |-> TRUE, font |-> "file", flag |-> TRUE],
    [ev |-> <<Event("embed_failed", p, 0, <<>>)>>,
     bad |-> TRUE, font |-> "builtin", flag |-> FALSE] }

\* `if not hasattr(new_page, '_cjk_font_embedded')`: insert_font, the flag,
\* the test insertion.  Runs carry the font that is used afterwards and
\* whether the flag is set.
EmbedRuns(p, flagged) ==
  IF flagged
  THEN {[ev |-> <<>>, bad |-> FALSE, font |-> "file", flag |-> TRUE]}
  ELSE { [ev |-> <<Event("embed", p, 0, <<>>), Event("test", p, 0, T_test)>>,
          bad |-> FALSE, font |-> "file", flag |-> TRUE],
         [ev |-> <<Event("embed", p, 0, <<>>), Event("test_failed", p, 0, T_test)>>,
          bad |-> TRUE, font |-> "file", flag |-> TRUE],
         [ev |-> <<Event("embed_failed", p, 0, <<>>)>>,
          bad |-> TRUE, font |-> "builtin", flag |-> FALSE] }

\* `if font_name_to_use:` ... the insertions with a font.  A region without
\* width or height: insert_text at rect.tl; a region that leaves the page:
\* insert_text at a point clamped into the page; else insert_textbox, and
\* insert_text when it placed nothing.  When a call of the try block
\* raises, insert_text with the font follows, and insert_text without the
\* font when that raises too.
FontCascade(font, rect, p, k, text) ==
  IF rect = "inside"
  THEN {[ev |-> <<Event(BoxOp(font), p, k, text)>>, bad |-> FALSE]}
       \cup Then({[ev |-> <<Event(ZeroOp(font), p, k, text)>>, bad |-> TRUE]},
                 Chain(<<PointOp(font), PointOp(font), "text">>, p, k, text))
       \cup Then({[ev |-> <<Event(FailedOp(BoxOp(font)), p, k, text)>>, bad |-> TRUE]},
                 Chain(<<PointOp(font), "text">>, p, k, text))
  ELSE Chain(<<PointOp(font), PointOp(font), "text">>, p, k, text)

\* What follows the insertions of a CJK text on the digital path: the link
\* annotation for a fragment with a link, one more insert_textbox without
\* a font (and insert_text when that raises) for a fragment without.
AfterCJK(p, e, pn) ==
  IF p # "digital" THEN Nothing
  ELSE IF e.link THEN Call1("link", pn, e.k, e.text)
  ELSE Chain(<<"textbox", "text">>, pn, e.k, e.text)

\* The runs of the insertion of entry e on page pn.  raised: an exception
\* leaves the insertion; flag: the page carries the embedded flag afterwards.
CJKRuns(p, e, pn, fontpath, flagged) ==
  IF fontpath = "file"
  THEN UNION {
         { [ev |-> r.ev \o c.ev, bad |-> r.bad \/ c.bad, flag |-> r.flag,
            raised |-> FALSE] :
             c \in Then(FontCascade(r.font, e.rect, pn, e.k, e.text),
                        AfterCJK(p, e, pn)) } :
         r \in EmbedRuns(pn, flagged) }
  ELSE { [ev |-> c.ev, bad |-> c.bad, flag |-> flagged, raised |-> FALSE] :
           c \in Then(Chain(<<"textbox", "text">>, pn, e.k, e.text),
                      AfterCJK(p, e, pn)) }

LinkRuns(e, pn) == IF e.link THEN Call1("link", pn, e.k, e.text) ELSE Nothing

\* PdfTranslator: `translated_text = f'<a href=...>{translated_text}</a>'`
\* for a block with a link; the fallback insert_text writes this string.
Markup(e) == IF e.link THEN <<"<a>">> \o e.text \o <<"</a>">> ELSE e.text

HtmlRuns(p, e, pn, flagged) ==
  LET html == {[ev |-> <<Event("htmlbox", pn, e.k, e.text)>>, bad |-> FALSE]}
      nohtml == {[ev |-> <<Event("htmlbox_failed", pn, e.k, e.text)>>, bad |-> TRUE]}
      plain ==
        CASE p = "digital" ->
               Then(html, LinkRuns(e, pn))
                 \cup Then(nohtml, Chain(<<"textbox", "text">>, pn, e.k, e.text))
          [] p = "scanned" ->
               Chain(InsertMethods(p), pn, e.k, e.text)
          [] OTHER ->
               Then(html, LinkRuns(e, pn))
                 \cup Then(nohtml,
                           Then({[ev |-> <<Event("text", pn, e.k, Markup(e))>>,
                                  bad |-> FALSE]}, LinkRuns(e, pn)))
      escapes ==
        IF p = "pdftranslator"
        THEN {[ev |-> <<Event("htmlbox_failed", pn, e.k, e.text),
                        Event("text_failed", pn, e.k, Markup(e))>>,
               bad |-> TRUE, flag |-> flagged, raised |-> TRUE]}
        ELSE {}
  IN  {[ev |-> c.ev, bad |-> c.bad, flag |-> flagged, raised |-> FALSE] : c \in plain}
        \cup escapes

InsertRuns(p, e, pn, fontpath, flagged) ==
  IF p # "pdftranslator" /\ contains_cjk_characters(e.text)
  THEN CJKRuns(p, e, pn, fontpath, flagged)
  ELSE HtmlRuns(p, e, pn, flagged)

\* The calls that place the fragment's text on the page.
Inserts ==
  {"htmlbox", "textbox", "text", "textbox_font", "text_font",
   "textbox_builtin", "text_builtin"}

\* The events of a run, closed by "lost" when no call placed the text and
\* the insertion gave up silently.
RunEvents(r, pn, e) ==
  IF r.raised \/ \E j \in DOMAIN r.ev : r.ev[j].op \in Inserts THEN r.ev
  ELSE Append(r.ev, Event("lost", pn, e.k, e.text))

\* One turn of the insertion loop over normal_blocks + bold_blocks: one run
\* of the insertion of the fragment at the head of the queue.
InsertFragment ==
  /\ pc = "insert"
  /\ queue # <<>>
  /\ LET e == Head(queue)
     IN  \E r \in InsertRuns(path, e, pg, cjk_font_path, pg \in font_embedded) :
           /\ ~r.bad \/ Spent < MaxFaults
           /\ faults' = IF r.bad THEN Append(faults, Fault("insert", pg, e.k))
                        ELSE faults
           /\ queue' = Tail(queue)
           /\ log' = log \o RunEvents(r, pg, e)
           /\ font_embedded' = IF r.flag THEN font_embedded \cup {pg}
                               ELSE font_embedded
           /\ IF r.raised
              THEN out' = Failed(500) /\ pc' = "done" /\ pg' = pg
              ELSE /\ out' = out
                   /\ IF Tail(queue) = <<>> THEN pc' = "page" /\ pg' = pg + 1
                      ELSE pc' = "insert" /\ pg' = pg
  /\ UNCHANGED <<doc, pages_data, block_index, path>>
  /\ UNCHANGED corpora
  /\ UNCHANGED <<font_files, cjk_font_path>>
  /\ UNCHANGED <<adapterVars, geomVars, unitVars>>

\* The page loop is over: the translated document is written.
Finish ==
  /\ pc = "page"
  /\ pg > Len(pages_data)
  /\ pc' = "done"
  /\ out' = [status |-> "pdf", code |-> 200]
  /\ UNCHANGED <<doc, pg, pages_data, block_index, queue, log, faults, path>>
  /\ UNCHANGED corpora
  /\ UNCHANGED fontVars
  /\ UNCHANGED <<adapterVars, geomVars, unitVars>>

PipelineNext ==
  \/ ExtractPage
  \/ Translate
  \/ SkipPage
  \/ MarkPage
  \/ ApplyRedactions
  \/ InsertFragment
  \/ Finish

SpecPipeline == PipelineInit /\ [][PipelineNext]_vars

(***************************************************************************)
(* The same pipelines over documents of more than chunk_size fragments,    *)
(* which the Azure provider translates in more than one request.           *)
(***************************************************************************)
LargePage(k) == [i \in 1..LargeFrags |-> IF i <= k THEN S_a ELSE S_ab]

LargeDocuments ==
  { <<LargePage(0)>>, <<LargePage(chunk_size)>>, <<<<>>, LargePage(chunk_size)>> }

LargeInit ==
  /\ provider = "azure"
  /\ doc \in LargeDocuments
  /\ RunInit

SpecLarge == LargeInit /\ [][PipelineNext]_vars

(***************************************************************************)
(* The digital and the scanned pipeline over a document whose only CJK     *)
(* fragment comes after cjk_sample other fragments, with a font file.      *)
(***************************************************************************)
SamplePage == [i \in 1..(cjk_sample + 1) |-> IF i <= cjk_sample THEN S_a ELSE S_cjk]

SampleInit ==
  /\ provider = "azure"
  /\ doc = <<<<>>, SamplePage>>
  /\ RunInit
  /\ path \in {"digital", "scanned"}
  /\ font_files

SpecSample == SampleInit /\ [][PipelineNext]_vars

(***************************************************************************)
(* What the output document shows in place of block k of page p: the       *)
(* original text when the block's region was neither marked nor covered,   *)
(* else the text that was inserted, or nothing.                            *)
(***************************************************************************)
EventsOf(ops, p, k) ==
  {i \in DOMAIN log : log[i].op \in ops /\ log[i].page = p /\ log[i].k = k}

Shown(p, k) ==
  IF EventsOf({"mark", "cover"}, p, k) = {} THEN pages_data[p][k].text
  ELSE IF EventsOf(Inserts, p, k) = {} THEN <<>>
  ELSE log[CHOOSE i \in EventsOf(Inserts, p, k) : TRUE].text

\* All (page, block) positions, and the index of a position in block_texts.
Positions ==
  UNION {{<<p, k>> : k \in 1..Len(pages_data[p])} : p \in DOMAIN pages_data}

IndexOf(pk) == BlocksBefore(pages_data, pk[1]) + pk[2]

\* The request that carries fragment i, and whether the backend answered
\* with a result for fragment i.
ChunkIndex(i) == (i - 1) \div chunk_size + 1

HasResult(i) ==
  \/ resp[ChunkIndex(i)] \in {"full", "blank"}
  \/ /\ resp[ChunkIndex(i)] = "short"
     /\ i < Min(Len(texts), ChunkIndex(i) * chunk_size)

OwnResult(i) ==
  IF resp[ChunkIndex(i)] = "blank" THEN <<>> ELSE Backend(mode, texts[i])

(***************************************************************************)
(* Claims about the pipelines (checked under SpecPipeline and SpecLarge).  *)
(***************************************************************************)
\* C2: when the backend returns fewer results than there are fragments, the
\* run ends with a document in which every fragment that has a result shows
\* the result for its own text and every fragment without a result shows
\* its original text.
C2_FewerResultsAligned ==
  (/\ pc = "done" /\ faults = <<>>
   /\ ret.status = "returned" /\ Len(ret.value) < Len(texts))
  => /\ out.status = "pdf"
     /\ \A pk \in Positions :
          LET i == IndexOf(pk)
          IN  /\ (HasResult(i) /\ OwnResult(i) # <<>>)
                   => Shown(pk[1], pk[2]) = OwnResult(i)
              /\ ~HasResult(i) => Shown(pk[1], pk[2]) = texts[i]

\* C3: a fragment whose translation result is the empty string shows its
\* original text in the output document.
C3_EmptyResultShowsOriginal ==
  (/\ pc = "done" /\ out.status = "pdf" /\ faults = <<>>
   /\ ret.status = "returned")
  => \A pk \in Positions :
       (IndexOf(pk) <= Len(ret.value) /\ ret.value[IndexOf(pk)] = <<>>)
         => Shown(pk[1], pk[2]) = pages_data[pk[1]][pk[2]].text

\* The run is past the calls of apply_redactions for page p: it is
\* inserting on p, it is at any point of the loop on a later page, or it
\* ended on p in an insertion or after p (ret is pending while the pages
\* are extracted).
PageApplied(p) ==
  \/ pc = "insert" /\ pg = p
  \/ pc \in {"page", "apply", "insert"} /\ pg > p
  \/ pc = "done" /\ ret.status # "pending" /\ pg > p
  \/ /\ pc = "done" /\ ret.status # "pending" /\ pg = p
     /\ out.status = "error" /\ faults # <<>>
     /\ faults[Len(faults)].at = "insert"

\* The calls of apply_redactions, returned or not.
ApplyCallOps == {"apply", "apply_rejected", "apply_failed"}

\* Block k of page p is one the first pass marks: every block in
\* PdfTranslator, a block whose translated text is not blank on the digital
\* path (`if not translated_text.strip(): continue`).
Rendered(p, k) ==
  \/ path = "pdftranslator"
  \/ strip(translated_text(path, pages_data[p][k], ret.value,
                           BlocksBefore(pages_data, p) + k - 1)) # <<>>

\* Marking and applying are not interleaved and no text is inserted before
\* the redactions are applied: every mark of a page precedes every call of
\* apply_redactions for the page, every call precedes every insertion on
\* the page, and an insertion concerns a marked fragment of a page whose
\* redactions were applied.
MarkApplyInsert ==
  /\ \A i, j \in DOMAIN log :
       /\ (log[i].op = "mark" /\ log[j].op \in ApplyCallOps
             /\ log[i].page = log[j].page) => i < j
       /\ (log[i].op \in ApplyCallOps /\ log[j].op \in Inserts \cup {"lost"}
             /\ log[i].page = log[j].page) => i < j
  /\ \A j \in DOMAIN log :
       log[j].op \in Inserts \cup {"lost"} =>
         /\ EventsOf({"apply"}, log[j].page, 0) # {}
         /\ EventsOf({"mark"}, log[j].page, log[j].k) # {}

\* C4 as stated: on the digital paths every fragment of a page is marked
\* before the page's call of apply_redactions, apply_redactions is called
\* exactly once for a page with fragments, no text is inserted before the
\* call, and marking and applying are not interleaved.
C4_BatchMarkThenApply ==
  path \in {"digital", "pdftranslator"} =>
    /\ MarkApplyInsert
    /\ \A p \in DOMAIN pages_data :
         (pages_data[p] # <<>> /\ pc \notin {"extract", "translate"}
            /\ PageApplied(p))
           => /\ Cardinality(EventsOf(ApplyCallOps, p, 0)) = 1
              /\ \A k \in DOMAIN pages_data[p] : EventsOf({"mark"}, p, k) # {}

\* C4 amended: on the digital paths every fragment that the first pass
\* renders (every fragment in PdfTranslator, every fragment with a
\* translation that is not blank in translate_digital_pdf_with_layout), and
\* no other, is marked before the page's first call of apply_redactions;
\* for a page with fragments apply_redactions is called once, and a second
\* time only right after the first call was rejected with AttributeError or
\* TypeError; exactly one call returns; no text is inserted before that,
\* and marking and applying are not interleaved.
C4_Amended ==
  path \in {"digital", "pdftranslator"} =>
    /\ MarkApplyInsert
    /\ \A p \in DOMAIN pages_data :
         \A i, j \in EventsOf(ApplyCallOps, p, 0) :
           i < j => /\ log[i].op = "apply_rejected"
                    /\ j = i + 1
                    /\ log[j].op # "apply_rejected"
    /\ \A p \in DOMAIN pages_data :
         (pages_data[p] # <<>> /\ pc \notin {"extract", "translate"}
            /\ PageApplied(p))
           => /\ Cardinality(EventsOf({"apply"}, p, 0)) = 1
              /\ EventsOf({"apply_failed"}, p, 0) = {}
              /\ \A k \in DOMAIN pages_data[p] :
                   Rendered(p, k) <=> EventsOf({"mark"}, p, k) # {}

\* C4 witness: a digital run ended with a document; on one page two
\* fragments were marked, the call of apply_redactions with images= was
\* rejected and the call without it returned, and both texts were inserted
\* after it.
C4_Witness ==
  /\ path = "digital" /\ out.status = "pdf"
  /\ \E p \in DOMAIN pages_data :
       /\ Cardinality({i \in DOMAIN log : log[i].op = "mark" /\ log[i].page = p}) = 2
       /\ Cardinality({i \in DOMAIN log : log[i].op \in Inserts /\ log[i].page = p}) = 2
       /\ \E i \in EventsOf({"apply_rejected"}, p, 0) :
            i < Len(log) /\ log[i + 1].op = "apply" /\ log[i + 1].page = p

\* C5: when applying the redactions of a page fails, the run still ends
\* with a document, and the redactions of every other page with fragments
\* are applied.
C5_ApplyFailureIsPageScoped ==
  (/\ pc = "done"
   /\ \E f \in DOMAIN faults :
        faults[f].at = "apply" /\ faults[f].what \in {"fail", "retry_fail"})
  => /\ out.status = "pdf"
     /\ \A p \in DOMAIN pages_data :
          (pages_data[p] # <<>>
             /\ \A f \in DOMAIN faults :
                  faults[f].at = "apply" => faults[f].page # p)
            => EventsOf({"apply"}, p, 0) # {}

\* C8: a page whose extraction meets an error is emitted with zero
\* fragments at its own index, and the extraction goes on to the last page.
C8_ExtractionErrorKeepsRun ==
  \A f \in DOMAIN faults :
    faults[f].at = "extract" =>
      /\ Len(pages_data) >= faults[f].page
      /\ pages_data[faults[f].page] = <<>>
      /\ pc # "extract" => Len(pages_data) = Len(doc)

\* C9: when a request to the backend fails, the run still ends with a
\* document in which the fragments of the failed request show their
\* original text and the fragments of the other requests their translation.
C9_BackendErrorKeepsRun ==
  (/\ pc = "done" /\ faults = <<>>
   /\ \E c \in DOMAIN resp : resp[c] = "raise")
  => /\ out.status = "pdf"
     /\ \A pk \in Positions :
          LET i == IndexOf(pk)
          IN  /\ resp[ChunkIndex(i)] = "raise"
                   => Shown(pk[1], pk[2]) = texts[i]
              /\ (resp[ChunkIndex(i)] = "full" /\ OwnResult(i) # <<>>)
                   => Shown(pk[1], pk[2]) = OwnResult(i)

(***************************************************************************)
(* Claims about the providers (checked under SpecAdapter).                 *)
(***************************************************************************)
AllFull == \A c \in DOMAIN resp : resp[c] = "full"

ShortAt(txs, i) ==
  i \in 1..Len(txs) /\ strip(txs[i]) # <<>> /\ is_short(strip(txs[i]))

\* The first and the last fragment of the group that the outer while loop,
\* arrived at fragment j, forms around fragment i >= j: a fragment that is
\* not short is on its own, and a group ends at max_group_size fragments.
RECURSIVE GroupSpan(_, _, _)
GroupSpan(txs, j, i) ==
  IF j >= i /\ ~ShortAt(txs, j) THEN <<i, i>>
  ELSE IF ~ShortAt(txs, j) THEN GroupSpan(txs, j + 1, i)
  ELSE LET last == GroupEnd(txs, j, 1)
       IN  IF i <= last THEN <<j, last>> ELSE GroupSpan(txs, last + 1, i)

\* Fragment i is short and translate_texts sends it to the backend in one
\* text with a neighbour.
Grouped(txs, i) ==
  /\ ShortAt(txs, i)
  /\ LET span == GroupSpan(txs, 1, i) IN span[1] < span[2]

\* What a fragment that is translated on its own ends with when no call
\* fails: "" for a blank text, the words of its translation, or the text
\* itself when a short fragment's translation has no words.
OwnEntry(m, t) ==
  IF strip(t) = <<>> THEN <<>>
  ELSE IF is_short(strip(t))
       THEN (IF split(Backend(m, t)) = <<>> THEN t
             ELSE join(<<" ">>, split(Backend(m, t))))
       ELSE Backend(m, t)

\* C1 as stated: translate_texts returns len(F) entries and entry i is the
\* translation of F[i], never of another index.  Stated for runs in which no
\* backend call fails and every request is answered in full, and allowing
\* F[i] itself (the provider's fallback) in place of its translation.
C1_EntryIsOwnTranslation ==
  (ret.status = "returned" /\ fails = {} /\ AllFull) =>
    /\ Len(ret.value) = Len(texts)
    /\ \A i \in 1..Len(texts) :
         ret.value[i] \in {Backend(mode, texts[i]), texts[i], strip(texts[i])}

\* C1 amended: LibreTranslate returns len(F) entries for every input, Azure
\* returns len(F) entries with entry i the translation of F[i] whenever every
\* request is answered with one translation per item, and with LibreTranslate and
\* no failing call entry i is derived from F[i] alone for every fragment
\* that is not grouped with a neighbouring short fragment.
C1_Amended ==
  ret.status = "returned" =>
    /\ lower_strip(provider) = "libretranslate" => Len(ret.value) = Len(texts)
    /\ (lower_strip(provider) = "azure" /\ AllFull) =>
         /\ Len(ret.value) = Len(texts)
         /\ \A i \in 1..Len(texts) : ret.value[i] = Backend(mode, texts[i])
    /\ (lower_strip(provider) = "libretranslate" /\ fails = {}) =>
         \A i \in 1..Len(texts) :
           ~Grouped(texts, i) => ret.value[i] = OwnEntry(mode, texts[i])

\* C1 witness: a LibreTranslate call returned three entries, one for a
\* fragment translated on its own and one for a grouped fragment whose entry
\* is not the translation of its own text.
C1_Witness ==
  /\ provider = "libretranslate" /\ ret.status = "returned" /\ fails = {}
  /\ Len(texts) = 3
  /\ \E i, j \in 1..Len(texts) :
       /\ ~Grouped(texts, i) /\ strip(texts[i]) # <<>>
       /\ ret.value[i] = Backend(mode, texts[i])
       /\ Grouped(texts, j)
       /\ ret.value[j] \notin {Backend(mode, texts[j]), texts[j], strip(texts[j])}

\* C10: LibreTranslate's translate_texts never raises; a failed grouped
\* call is followed by one retry per fragment of the group, in order, each
\* sending the fragment's own text; a fragment whose retry fails receives
\* its original text and one whose retry succeeds its translation; a long
\* fragment whose call fails receives its original text.
C10_LongFallbackIsOriginal ==
  (lower_strip(provider) = "libretranslate" /\ ret.status # "pending") =>
    /\ ret.status = "returned"
    /\ Len(ret.value) = Len(texts)
    /\ \A k \in 1..Len(sent) :
         /\ (sent[k].kind = "group" /\ sent[k].failed) =>
              \A j \in sent[k].first..sent[k].last :
                LET r == k + (j - sent[k].first + 1)
                IN  /\ r <= Len(sent)
                    /\ sent[r].kind = "retry"
                    /\ sent[r].first = j
                    /\ sent[r].text = texts[j]
         /\ sent[k].kind = "retry" =>
              /\ k > 1
              /\ ret.value[sent[k].first] =
                   IF sent[k].failed THEN texts[sent[k].first]
                   ELSE Backend(mode, texts[sent[k].first])
         /\ (sent[k].kind = "long" /\ sent[k].failed) =>
              ret.value[sent[k].first] = texts[sent[k].first]

(***************************************************************************)
(* Claims about the render region (checked under SpecGeom).                *)
(***************************************************************************)
\* C6: the render region of a fragment whose bbox lies inside the page lies
\* inside the page, on the digital and on the scanned path.
C6_RegionInsidePage ==
  region # <<>> =>
    /\ region[1] >= 0
    /\ region[2] >= 0
    /\ region[3] <= unit(frag.olen) * PageW
    /\ region[4] <= unit(frag.olen) * PageH

\* C7: every render region is at least 10 page units high, and the region
\* of a fragment whose bbox is lower than 10 is centred on the vertical
\* centre of that bbox, on the digital and on the scanned path.
C7_MinimumHeight ==
  region # <<>> =>
    /\ region[4] - region[2] >= unit(frag.olen) * MinHeight
    /\ (frag.coords[4] - frag.coords[2] < MinHeight) =>
         region[2] + region[4] = unit(frag.olen) * (frag.coords[2] + frag.coords[4])

\* C12: the texts handed to the translator are the fragments in extraction
\* order, the k-th fragment is worked on with the k-th result (its own text
\* when the results end before k; inside the link markup in PdfTranslator's
\* fallback insertion), and the two corpora have one entry per
\* fragment of the pages visited so far, in that order.
ResultFor(i) ==
  IF ret.status = "returned" /\ i <= Len(ret.value) THEN ret.value[i]
  ELSE texts[i]

C12_OrderAndCorpora ==
  /\ ret.status # "pending" => texts = Flatten(pages_data)
  /\ \A j \in DOMAIN log :
       log[j].op \in {"mark", "cover"} \cup Inserts =>
         LET result == ResultFor(IndexOf(<<log[j].page, log[j].k>>))
         IN  \/ log[j].text = result
             \/ /\ path = "pdftranslator" /\ log[j].op = "text"
                /\ pages_data[log[j].page][log[j].k].link
                /\ log[j].text = <<"<a>">> \o result \o <<"</a>">>
  /\ path # "pdftranslator" =>
       /\ Len(original_text_parts) = Len(translated_text_parts)
       /\ Len(original_text_parts) = block_index
       /\ \A k \in DOMAIN original_text_parts :
            /\ original_text_parts[k] = texts[k]
            /\ translated_text_parts[k] = ResultFor(k)
       /\ out.status = "pdf" => Len(original_text_parts) = Len(texts)

C12_Witness ==
  /\ path = "digital" /\ out.status = "pdf"
  /\ Len(pages_data) = 2 /\ pages_data[1] # <<>>
  /\ Len(original_text_parts) = 4
  /\ translated_text_parts[3] # original_text_parts[3]
  /\ \E j \in DOMAIN log : log[j].op \in Inserts /\ log[j].page = 2

\* C13: the phases of a run do not overlap: while pages are extracted the
\* translation has not been called and nothing is reclaimed; the translation
\* is called once every page is extracted and is over before the first
\* region is reclaimed; on a page every mark or cover precedes every
\* rendering step; the pages are worked on in increasing order.
Reclaims == {"mark", "cover"}

C13_PhasesInOrder ==
  /\ pc = "extract" => ret.status = "pending" /\ log = <<>>
  /\ ret.status # "pending" => Len(pages_data) = Len(doc)
  /\ log # <<>> =>
       /\ pc \notin {"extract", "translate"}
       /\ ret.status \in {"returned", "raised"}
  /\ \A i, j \in DOMAIN log :
       /\ (log[i].page = log[j].page /\ log[i].op \in Reclaims
             /\ log[j].op \notin Reclaims) => i < j
       /\ i < j => log[i].page <= log[j].page

C13_Witness ==
  /\ path = "scanned" /\ out.status = "pdf"
  /\ \E i, j \in DOMAIN log :
       /\ log[i].page = 1 /\ log[j].page = 2
       /\ log[i].op \in Inserts /\ log[j].op \in Inserts
  /\ Cardinality({i \in DOMAIN log : log[i].op = "cover" /\ log[i].page = 2}) = 2

(***************************************************************************)
(* The embedding of the CJK font.                                          *)
(***************************************************************************)
\* The insertion loop of page p has ended.
PageInserted(p) ==
  /\ p \in DOMAIN pages_data
  /\ \/ pc = "page" /\ pg > p
     \/ pc \in {"apply", "insert"} /\ pg > p
     \/ pc = "done" /\ out.status = "pdf"

\* Page p has a fragment with CJK text whose region was reclaimed.
HasCJK(p) ==
  \E i \in DOMAIN log :
    /\ log[i].op \in Reclaims
    /\ log[i].page = p
    /\ contains_cjk_characters(log[i].text)

Embeds(p) == {i \in DOMAIN log : log[i].op = "embed" /\ log[i].page = p}

UsesFont == {"textbox_font", "text_font", "test", "test_failed"}

\* C14 as stated: on each page with a CJK fragment and a font file the font is
\* embedded exactly once, whether or not an embedding attempt raises.
C14_EmbeddedExactlyOnce ==
  \A p \in DOMAIN pages_data :
    PageInserted(p) /\ HasCJK(p) /\ cjk_font_path = "file"
      => Cardinality(Embeds(p)) = 1

\* C14: on each page the CJK font is embedded at most once, and exactly once
\* when the page has a CJK fragment, a font file was found and no embedding
\* attempt raised on the page (an attempt that raises embeds nothing and is
\* made again for the next CJK fragment of the page); every insertion that
\* uses the embedded font on the page comes after the embedding.
C14_Amended ==
  \A p \in DOMAIN pages_data :
    /\ Cardinality(Embeds(p)) <= 1
    /\ \A i \in DOMAIN log :
         log[i].op \in UsesFont /\ log[i].page = p
           => \E j \in Embeds(p) : j < i
    /\ PageInserted(p) /\ HasCJK(p) /\ cjk_font_path = "file"
         /\ EventsOf({"embed_failed"}, p, 0) = {}
         => Cardinality(Embeds(p)) = 1

\* Two CJK fragments of one page were inserted with the font, embedded once.
C14_Witness ==
  \E p \in DOMAIN pages_data :
    /\ Cardinality({i \in DOMAIN log :
                      log[i].op = "textbox_font" /\ log[i].page = p}) = 2
    /\ Cardinality(Embeds(p)) = 1
    /\ PageInserted(p)

(***************************************************************************)
(* The selection of the font.                                              *)
(***************************************************************************)
\* The calls that try to place a fragment's text, and the first such call
\* of each fragment.
Attempts ==
  Inserts \cup {FailedOp(op) : op \in Inserts}
          \cup {"textbox_font_zero", "textbox_builtin_zero"}

FirstAttempts ==
  {i \in DOMAIN log :
     /\ log[i].op \in Attempts
     /\ i = 1 \/ log[i - 1].op \notin Attempts \/ log[i - 1].k # log[i].k}

WithEmbeddedFont ==
  {"textbox_font", "text_font", "textbox_font_failed", "text_font_failed",
   "textbox_font_zero"}

\* C15: on the digital and the scanned path, when a font file is available,
\* the first insertion call of every fragment whose translated text has a CJK
\* code point uses the embedded font (on a page where no embedding raised,
\* after a translation that the backend answered in full), wherever the
\* fragment is in the document.
C15_FontSelectedEverywhere ==
  path # "pdftranslator" /\ font_files /\ fails = {}
    /\ (\A c \in DOMAIN resp : resp[c] = "full")
    => \A i \in FirstAttempts :
         /\ contains_cjk_characters(log[i].text)
         /\ EventsOf({"embed_failed"}, log[i].page, 0) = {}
         => log[i].op \in WithEmbeddedFont

(***************************************************************************)
(* The cascade of insertions of a CJK fragment with the embedded font.     *)
(***************************************************************************)
BoxWithFont   == {"textbox_font", "textbox_font_zero", "textbox_font_failed"}
PointWithFont == {"text_font", "text_font_failed"}
PointPlain    == {"text", "text_failed"}

\* Event i is a call of the insertion of a fragment whose first call used
\* the embedded font.
InCascade(i) ==
  \E j \in FirstAttempts :
    /\ j <= i
    /\ log[j].op \in WithEmbeddedFont
    /\ \A m \in j..i : /\ log[m].op \in Attempts
                        /\ log[m].page = log[j].page
                        /\ log[m].k = log[j].k

\* C16: for a CJK fragment with the embedded font the first call is the
\* text box with the font; every further call for the fragment follows a
\* call that did not place the text: the point insertion with the font
\* follows the text box that placed nothing or raised, the point insertion
\* without the font follows a failed point insertion with the font, and
\* there is no other call; no failure of the cascade ends the run.
C16_FixedCascade ==
  path # "pdftranslator" =>
    /\ \A i \in FirstAttempts :
         log[i].op \in WithEmbeddedFont => log[i].op \in BoxWithFont
    /\ \A i \in DOMAIN log :
         (log[i].op \in Attempts /\ i \notin FirstAttempts /\ InCascade(i)) =>
           /\ log[i - 1].op \notin Inserts
           /\ log[i].op \in PointWithFont \cup PointPlain
           /\ log[i].op \in PointWithFont =>
                log[i - 1].op \in {"textbox_font_zero", "textbox_font_failed"}
           /\ log[i].op \in PointPlain => log[i - 1].op = "text_font_failed"
    /\ out.status = "error" /\ log # <<>>
         => log[Len(log)].op \notin Attempts \cup {"lost"}

(***************************************************************************)
(* Failures of the insertion, the link annotations, the cover.             *)
(***************************************************************************)
\* C17: on every path a failure to insert a fragment's text stays with the
\* fragment: no run ends in an error right after a call that tried to place
\* a fragment's text.
C17_InsertFailureIsFragmentScoped ==
  out.status = "error" /\ log # <<>>
    => log[Len(log)].op \notin Attempts \cup {"lost"}

\* C18: for every fragment of a digital document that carried a link, each
\* call that placed its text, the first one or a fallback, is followed by a
\* call that attaches the link annotation for that fragment.
C18_LinkAfterAnyInsertion ==
  \A i \in DOMAIN log :
    /\ log[i].op \in Inserts
    /\ pages_data[log[i].page][log[i].k].link
    => \E j \in EventsOf({"link", "link_failed"}, log[i].page, log[i].k) : j > i

\* C19: in a run that returned a document, every fragment whose region was
\* marked for redaction or covered and whose translation is not blank has
\* had its text placed by some call.
C19_NoneReclaimedUnrendered ==
  out.status = "pdf"
    => \A i \in DOMAIN log :
         log[i].op \in Reclaims /\ strip(log[i].text) # <<>>
           => EventsOf(Inserts, log[i].page, log[i].k) # {}

\* C20: on the scanned path a cover rectangle that could not be painted
\* does not end the run: the run goes on and returns a translated document.
C20_CoverFailureNotFatal ==
  (\E i \in DOMAIN log : log[i].op = "cover_failed")
    => out.status \in {"running", "pdf"}

(***************************************************************************)
(* The link of a span (digital extraction).  A link of the page has the    *)
(* rectangle it lies over and its target; link_map is a dict keyed by the  *)
(* rectangle, which keeps one entry per rectangle, at the position of the  *)
(* first link with that rectangle and with the target of the last one.     *)
(***************************************************************************)
MaxLinks == 3

LinkRects == { <<0, 0, 2, 2>>, <<1, 1, 3, 3>>, <<2, 0, 4, 2>> }
LinkUris == {"u1", "u2"}
PageLinks ==
  UNION { [1..n -> [from : LinkRects, uri : LinkUris]] : n \in 0..MaxLinks }

\* fitz.Rect.intersects: the two rectangles have a non-empty rectangle in
\* common.
intersects(a, b) ==
  /\ Max(a[1], b[1]) < Min(a[3], b[3])
  /\ Max(a[2], b[2]) < Min(a[4], b[4])

\* link_map[rect] = {...} for every link in page order.
LinkMap(links) ==
  LET F[n \in 0..Len(links)] ==
        IF n = 0 THEN <<>>
        ELSE LET old == {j \in DOMAIN F[n - 1] : F[n - 1][j].from = links[n].from}
             IN  IF old = {} THEN Append(F[n - 1], links[n])
                 ELSE [j \in DOMAIN F[n - 1] |->
                         IF j \in old THEN links[n] ELSE F[n - 1][j]]
  IN  F[Len(links)]

\* for link_rect, link_data in link_map.items(): the first entry that
\* intersects the span, or None.
LinkInfo(rect, links) ==
  LET link_map == LinkMap(links)
      hits == {j \in DOMAIN link_map : intersects(rect, link_map[j].from)}
  IN  IF hits = {} THEN "None" ELSE link_map[SetMin(hits)].uri

LinkInit ==
  /\ page_links \in PageLinks
  /\ span_rect \in LinkRects
  /\ link_info = "pending"
  /\ provider = "azure" /\ texts = <<>> /\ mode = "word" /\ fails = {}
  /\ resp = <<>> /\ sent = <<>> /\ ret = [status |-> "pending", value |-> <<>>]
  /\ path = "none"
  /\ GeomIdle
  /\ PipeIdle
  /\ OcrIdle
  /\ ChunkIdle
  /\ ChatIdle

AttachLink ==
  /\ link_info = "pending"
  /\ link_info' = LinkInfo(span_rect, page_links)
  /\ UNCHANGED <<page_links, span_rect>>
  /\ UNCHANGED <<adapterVars, path, geomVars, pipeVars, ocrVars, chunkVars, chatVars>>

LinkNext == AttachLink

SpecLinks == LinkInit /\ [][LinkNext]_vars

\* The links of the page, in page order, that intersect the span.
Intersecting ==
  {i \in DOMAIN page_links : intersects(span_rect, page_links[i].from)}

\* C22: a span attaches the first link, in the order the page reports its
\* links, whose rectangle intersects the span's bbox, and no link when none
\* intersects, also when links share a rectangle.
C22_FirstIntersectingLink ==
  link_info # "pending"
    => link_info = IF Intersecting = {} THEN "None"
                   ELSE page_links[SetMin(Intersecting)].uri

(***************************************************************************)
(* The order of the insertions of a page.                                  *)
(***************************************************************************)
IsBold(i) == pages_data[log[i].page][log[i].k].bold

\* C23: on every page every insertion call for a bold fragment comes after
\* every insertion call for a normal fragment of the page, and the fragments
\* of each of the two classes are inserted in extraction order.
C23_NormalBeforeBold ==
  \A i, j \in DOMAIN log :
    /\ i < j
    /\ log[i].op \in Attempts /\ log[j].op \in Attempts
    /\ log[i].page = log[j].page
    /\ log[i].k # log[j].k
    => /\ IsBold(i) => IsBold(j)
       /\ IsBold(i) = IsBold(j) => log[i].k < log[j].k

\* A bold fragment extracted before a normal one was inserted after it.
C23_Witness ==
  \E i, j \in DOMAIN log :
    /\ i < j
    /\ log[i].op \in Inserts /\ log[j].op \in Inserts
    /\ log[i].page = log[j].page
    /\ log[i].k > log[j].k
    /\ IsBold(j) /\ ~IsBold(i)

(***************************************************************************)
(* The OCR line reconstruction of extract_text_with_boxes_from_scanned_pdf *)
(* for one page.  A word of the OCR output has its text, its confidence    *)
(* and its box in image coordinates (twice the page coordinates; the boxes *)
(* drawn here have even coordinates).                                      *)
(***************************************************************************)
MaxWords == 3

min_conf == 30
gap_floor == 50

T_b == <<"b">>

OcrWords ==
  [text : {T_a, T_b, T_blank}, conf : {min_conf - 1, min_conf},
   left : {0, 200}, top : {0, 11}, width : {40}, height : {20}]

OcrOutputs == UNION { [1..n -> OcrWords] : n \in 0..MaxWords }

Abs(n) == IF n < 0 THEN 0 - n ELSE n

\* `if not text or conf < 30: continue`
Retained(w) == strip(w.text) # <<>> /\ w.conf >= min_conf

\* The word as it is kept in current_line_blocks.  The image has twice the
\* scale of the page: x0 = left / 2.0, ..., font_size =
\* max(8, min(height / 2.0, 24)).  The numbers of a block are in halves of
\* a page unit, the pixels of the image, so that the halves are exact.
WordBlock(w) ==
  [text      |-> strip(w.text),
   bbox      |-> <<w.left, w.top, w.left + w.width, w.top + w.height>>,
   font_size |-> Max(2 * 8, Min(w.height, 2 * 24))]

\* The block a line of words is merged into.
MergeLine(line) ==
  [text |-> join(<<" ">>, [j \in DOMAIN line |-> line[j].text]),
   bbox |-> << SetMin({line[j].bbox[1] : j \in DOMAIN line}),
               SetMin({line[j].bbox[2] : j \in DOMAIN line}),
               SetMax({line[j].bbox[3] : j \in DOMAIN line}),
               SetMax({line[j].bbox[4] : j \in DOMAIN line}) >>,
   bold |-> FALSE]

\* is_new_line for word block b after the words of `line`, whose first word
\* has its top at last_y: abs(y0 - last_y) > avg_font_size * 0.5, or the gap
\* to the last word is more than max(avg_word_width * 3, 50).  The two
\* averages are floats, sum / len; a whole number is greater than a float
\* when it is greater than the float's whole part.
IsNewLine(b, line, last_y) ==
  \/ line = <<>>
  \/ LET avg_font_size == truediv(sum([j \in DOMAIN line |-> line[j].font_size]),
                                  Len(line))
     IN  2 * Abs(b.bbox[2] - last_y) > int(avg_font_size)
  \/ LET horizontal_gap == b.bbox[1] - line[Len(line)].bbox[3]
         avg_word_width ==
           truediv(sum([j \in DOMAIN line |-> line[j].bbox[3] - line[j].bbox[1]]),
                   Len(line))
     IN  /\ horizontal_gap > 2 * gap_floor
         /\ horizontal_gap > int(mul(3, avg_word_width))

\* A variant of the loop's exit that forgets the line still open.
CloseLine_Dropped(blocks, line) == blocks

\* `if current_line_blocks:` ... page_blocks.append(...)
CloseLine(blocks, line) ==
  IF line = <<>> THEN blocks ELSE Append(blocks, MergeLine(line))

\* The loop over the words: st is the state after the first n words.
GroupWords(words) ==
  LET F[n \in 0..Len(words)] ==
        IF n = 0 THEN [blocks |-> <<>>, line |-> <<>>, last_y |-> 0]
        ELSE LET st == F[n - 1]
                 w == words[n]
                 b == WordBlock(w)
             IN  IF ~Retained(w) THEN st
                 ELSE IF IsNewLine(b, st.line, st.last_y)
                 THEN [blocks |-> IF st.line = <<>> THEN st.blocks
                                  ELSE Append(st.blocks, MergeLine(st.line)),
                       line   |-> <<b>>,
                       last_y |-> b.bbox[2]]
                 ELSE [st EXCEPT !.line = Append(st.line, b)]
      end == F[Len(words)]
  IN  CloseLine(end.blocks, end.line)

OcrInit ==
  /\ ocr_data \in OcrOutputs
  /\ page_blocks = <<>>
  /\ ocr_pc = "ocr"
  /\ provider = "azure" /\ texts = <<>> /\ mode = "word" /\ fails = {}
  /\ resp = <<>> /\ sent = <<>> /\ ret = [status |-> "pending", value |-> <<>>]
  /\ path = "none"
  /\ GeomIdle
  /\ PipeIdle
  /\ LinkIdle
  /\ ChunkIdle
  /\ ChatIdle

ReconstructLines ==
  /\ ocr_pc = "ocr"
  /\ page_blocks' = GroupWords(ocr_data)
  /\ ocr_pc' = "done"
  /\ UNCHANGED ocr_data
  /\ UNCHANGED <<adapterVars, path, geomVars, pipeVars, linkVars, chunkVars, chatVars>>

OcrNext == ReconstructLines

SpecOcr == OcrInit /\ [][OcrNext]_vars

\* The texts of the words that are neither empty nor below the confidence
\* floor, in OCR output order.
RetainedTexts ==
  LET kept == SelectSeq(ocr_data, LAMBDA w : strip(w.text) # <<>> /\ w.conf >= min_conf)
  IN  [j \in DOMAIN kept |-> strip(kept[j].text)]

\* C24: the words of the fragments, read fragment by fragment in order, are
\* exactly the words of the OCR output that are not empty and not below
\* confidence 30, in OCR output order, the last line included: no such word
\* is lost or duplicated and no other word contributes.
C24_WordsPartitioned ==
  ocr_pc = "done"
    => concat([k \in DOMAIN page_blocks |-> split(page_blocks[k].text)])
         = RetainedTexts

\* The page has a word below the confidence floor between two retained
\* words, and the retained words went to two fragments.
C24_Witness ==
  /\ ocr_pc = "done"
  /\ Len(page_blocks) = 2
  /\ Len(ocr_data) = 3
  /\ strip(ocr_data[2].text) # <<>> /\ ocr_data[2].conf < min_conf

(***************************************************************************)
(* The chunks of translate_text_with_azure (main.py) and of                *)
(* AzureTranslationProvider.translate_text.  A text is given by the        *)
(* lengths of its paragraphs, the pieces of text.split('\n\n'); a          *)
(* paragraph of positive length is made of letters.  A chunk is given by   *)
(* its length and by whether it has a character that is not whitespace.    *)
(***************************************************************************)
MaxParas == 3

max_chunk_size == 45000

ParaLens ==
  {0, 1, max_chunk_size \div 2 - 1, max_chunk_size \div 2, max_chunk_size,
   max_chunk_size + 1}

Texts1 == UNION { [1..n -> ParaLens] : n \in 1..MaxParas }

\* len(text)
TextLen(ps) == sum(ps) + 2 * (Len(ps) - 1)

\* text.strip() is not empty.
HasText(ps) == \E j \in DOMAIN ps : ps[j] > 0

\* text_chunks: the text itself when it is not longer than max_chunk_size,
\* else the paragraphs gathered into chunks.
Chunks(ps) ==
  LET F[n \in 0..Len(ps)] ==
        IF n = 0 THEN [done |-> <<>>, len |-> 0, text |-> FALSE]
        ELSE LET st == F[n - 1]
                 s == ps[n]
             IN  IF st.len + s + 2 > max_chunk_size
                 THEN [done |-> IF st.len > 0
                                THEN Append(st.done, [len |-> st.len, text |-> st.text])
                                ELSE st.done,
                       len  |-> s,
                       text |-> s > 0]
                 ELSE [done |-> st.done,
                       len  |-> IF st.len > 0 THEN st.len + 2 + s ELSE s,
                       text |-> st.text \/ s > 0]
      end == F[Len(ps)]
  IN  IF TextLen(ps) <= max_chunk_size
      THEN <<[len |-> TextLen(ps), text |-> HasText(ps)]>>
      ELSE IF end.len > 0
      THEN Append(end.done, [len |-> end.len, text |-> end.text])
      ELSE end.done

\* The chunks that go out: `if not chunk.strip(): continue`.
SentChunks(ps) ==
  IF ~HasText(ps) THEN <<>>
  ELSE SelectSeq(Chunks(ps), LAMBDA c : c.text)

ChunkInit ==
  /\ paragraphs \in Texts1
  /\ text_chunks = <<>>
  /\ chunk_pc = "call"
  /\ provider = "azure" /\ texts = <<>> /\ mode = "word" /\ fails = {}
  /\ resp = <<>> /\ sent = <<>> /\ ret = [status |-> "pending", value |-> <<>>]
  /\ path = "none"
  /\ GeomIdle
  /\ PipeIdle
  /\ LinkIdle
  /\ OcrIdle
  /\ ChatIdle

TranslateTextWithAzure ==
  /\ chunk_pc = "call"
  /\ text_chunks' = SentChunks(paragraphs)
  /\ chunk_pc' = "done"
  /\ UNCHANGED paragraphs
  /\ UNCHANGED <<adapterVars, path, geomVars, pipeVars, linkVars, ocrVars, chatVars>>

ChunkNext == TranslateTextWithAzure

SpecChunks == ChunkInit /\ [][ChunkNext]_vars

\* C25: every chunk sent to the backend for a single text has at most
\* 45,000 characters, also when a paragraph is longer than that.
C25_ChunksBounded ==
  chunk_pc = "done"
    => \A c \in DOMAIN text_chunks : text_chunks[c].len <= max_chunk_size

(***************************************************************************)
(* What is written to the pages.                                           *)
(***************************************************************************)
\* C26: on the digital path the text of a fragment is placed by at most one
\* call: after a call that placed it no other call places it again.
C26_PlacedAtMostOnce ==
  path = "digital"
    => \A i, j \in DOMAIN log :
         /\ i < j
         /\ log[i].op \in Inserts /\ log[j].op \in Inserts
         /\ log[i].page = log[j].page
         => log[i].k # log[j].k

\* The calls that write a string to a page.
Writes == Inserts \cup {"test"}

\* C27: every string written to a page is the text of a fragment of that
\* page whose region was reclaimed, written for that fragment; the embedding
\* of the font writes nothing.
C27_OnlyFragmentTexts ==
  \A i \in DOMAIN log :
    log[i].op \in Writes
      => \E j \in EventsOf(Reclaims, log[i].page, log[i].k) :
           log[j].text = log[i].text

(***************************************************************************)
(* The words of a grouped translation.                                     *)
(***************************************************************************)
\* The grouped calls of the run that did not fail and whose translation has
\* words, and the words of the translation of such a call.
SplitGroups ==
  {c \in DOMAIN sent :
     /\ sent[c].kind = "group" /\ ~sent[c].failed
     /\ split(Backend(mode, sent[c].text)) # <<>>}

WordsOfGroup(c) == split(Backend(mode, sent[c].text))

\* C28: when a grouped translation is split back, the entries of the
\* fragments that received words, read in fragment order, are the words of
\* the grouped translation, none dropped, duplicated or moved; the fragments
\* after them keep their own text; no fragment of the group ends empty.
C28_WordsConserved ==
  (lower_strip(provider) = "libretranslate" /\ ret.status = "returned") =>
    \A c \in SplitGroups :
      /\ \E n \in 1..(sent[c].last - sent[c].first + 1) :
           /\ concat([k \in 1..n |-> split(ret.value[sent[c].first + k - 1])])
                = WordsOfGroup(c)
           /\ \A k \in 1..n :
                ret.value[sent[c].first + k - 1]
                  = join(<<" ">>, split(ret.value[sent[c].first + k - 1]))
           /\ \A j \in (sent[c].first + n)..sent[c].last :
                ret.value[j] = texts[j]
      /\ \A j \in sent[c].first..sent[c].last : ret.value[j] # <<>>

\* A group of several fragments whose translation has more words than the
\* group has fragments; the last fragment took more than one word.
C28_Witness ==
  /\ provider = "libretranslate" /\ ret.status = "returned"
  /\ \E c \in SplitGroups :
       /\ sent[c].last > sent[c].first
       /\ Len(WordsOfGroup(c)) > sent[c].last - sent[c].first + 1
       /\ Len(split(ret.value[sent[c].last])) > 1

(***************************************************************************)
(* The chat endpoints: start_chat, send_chat_message and                   *)
(* delete_chat_session over the two stores chat_sessions and               *)
(* pdf_data_storage.                                                       *)
(***************************************************************************)
MaxSessions == 2
MaxTurns == 2

SessionIds == 1..MaxSessions

Questions == {"q1", "q2"}

ChatMessage(role, content) == [role |-> role, content |-> content]

greeting_message == ChatMessage("assistant", <<"greeting">>)

user_message(m) == ChatMessage("user", <<m>>)

assistant_message == ChatMessage("assistant", <<"response_text">>)

\* The messages of one request to the chat model: the system prompt, the
\* history without its first and its last message, and the question with
\* the page images.
messages(history, m) ==
  <<ChatMessage("system", <<"system_content">>)>>
    \o SubSeq(history, 2, Len(history) - 1)
    \o <<ChatMessage("user", <<"Here are the PDF page images", m>>)>>

\* A dict without one key.
del(store, s) == [t \in DOMAIN store \ {s} |-> store[t]]

\* A dict with one key set.
put(store, s, v) == [t \in DOMAIN store \cup {s} |-> IF t = s THEN v ELSE store[t]]

HistoryFull(s) == Len(chat_sessions[s].messages) + 2 > 1 + 2 * MaxTurns

ChatInit ==
  /\ provider = "azure" /\ texts = <<>> /\ mode = "word" /\ fails = {}
  /\ resp = <<>> /\ sent = <<>> /\ ret = [status |-> "pending", value |-> <<>>]
  /\ path = "none"
  /\ GeomIdle
  /\ PipeIdle
  /\ LinkIdle
  /\ OcrIdle
  /\ ChunkIdle
  /\ ChatIdle

\* start_chat with a file: empty data is refused with 400, data that
\* get_pdf_info cannot read with 500; otherwise the session gets a new id,
\* the greeting as its first message, and an entry in both stores.
StartChat ==
  /\ session_count < MaxSessions
  /\ \E pdf_data \in {"empty", "unreadable", "pdf"} :
       IF pdf_data = "empty"
       THEN /\ chat_reply' = [op |-> "start", code |-> 400]
            /\ UNCHANGED <<chat_sessions, pdf_data_storage, session_count>>
       ELSE IF pdf_data = "unreadable"
       THEN /\ chat_reply' = [op |-> "start", code |-> 500]
            /\ UNCHANGED <<chat_sessions, pdf_data_storage, session_count>>
       ELSE /\ session_count' = session_count + 1
            /\ pdf_data_storage' = put(pdf_data_storage, session_count', pdf_data)
            /\ chat_sessions' = put(chat_sessions, session_count',
                                    [messages |-> <<greeting_message>>])
            /\ chat_reply' = [op |-> "start", code |-> 200]
  /\ UNCHANGED chat_prompt
  /\ UNCHANGED <<adapterVars, path, geomVars, pipeVars, linkVars, ocrVars, chunkVars>>

\* send_chat_message: the question is appended to the history before the
\* context is prepared; the answer is appended when the model has returned.
\* The context can fail (500), the chat model can be unavailable, which
\* chat_with_visual_context answers with 400 before it sends anything, and
\* the request to the chat model can fail (500).
SendChatMessage(s, m, outcome) ==
  /\ IF s \notin DOMAIN chat_sessions
     THEN /\ chat_reply' = [op |-> "message", code |-> 404]
          /\ UNCHANGED <<chat_sessions, chat_prompt>>
     ELSE IF s \notin DOMAIN pdf_data_storage
     THEN /\ chat_reply' = [op |-> "message", code |-> 400]
          /\ UNCHANGED <<chat_sessions, chat_prompt>>
     ELSE /\ ~HistoryFull(s)
          /\ LET history == Append(chat_sessions[s].messages, user_message(m))
             IN CASE outcome = "context_error" ->
                       /\ chat_sessions' = put(chat_sessions, s, [messages |-> history])
                       /\ chat_reply' = [op |-> "message", code |-> 500]
                       /\ UNCHANGED chat_prompt
                  [] outcome = "model_unavailable" ->
                       /\ chat_sessions' = put(chat_sessions, s, [messages |-> history])
                       /\ chat_reply' = [op |-> "message", code |-> 400]
                       /\ UNCHANGED chat_prompt
                  [] outcome = "model_error" ->
                       /\ chat_sessions' = put(chat_sessions, s, [messages |-> history])
                       /\ chat_prompt' = messages(history, m)
                       /\ chat_reply' = [op |-> "message", code |-> 500]
                  [] outcome = "stop" ->
                       /\ chat_sessions' = put(chat_sessions, s,
                            [messages |-> Append(history, assistant_message)])
                       /\ chat_prompt' = messages(history, m)
                       /\ chat_reply' = [op |-> "message", code |-> 200]
  /\ UNCHANGED <<pdf_data_storage, session_count>>
  /\ UNCHANGED <<adapterVars, path, geomVars, pipeVars, linkVars, ocrVars, chunkVars>>

\* delete_chat_session: both entries are deleted, and then the stores are
\* asked whether they hold the id.
DeleteChatSession(s) ==
  /\ chat_sessions' = del(chat_sessions, s)
  /\ pdf_data_storage' = del(pdf_data_storage, s)
  /\ chat_reply' = IF s \in DOMAIN chat_sessions' \/ s \in DOMAIN pdf_data_storage'
                   THEN [op |-> "delete", code |-> 200]
                   ELSE [op |-> "delete", code |-> 404]
  /\ UNCHANGED <<session_count, chat_prompt>>
  /\ UNCHANGED <<adapterVars, path, geomVars, pipeVars, linkVars, ocrVars, chunkVars>>

ChatNext ==
  \/ StartChat
  \/ \E s \in SessionIds, m \in Questions,
        outcome \in {"stop", "context_error", "model_unavailable", "model_error"} :
       SendChatMessage(s, m, outcome)
  \/ \E s \in SessionIds : DeleteChatSession(s)

SpecChat == ChatInit /\ [][ChatNext]_vars

\* C29: delete_chat_session on a session that exists removes it from both
\* stores and answers with status "deleted" (200); it answers 404 only when
\* the id is in neither store.
C29_DeleteReportsDeleted ==
  [][\A s \in SessionIds :
       DeleteChatSession(s) =>
         /\ s \notin DOMAIN chat_sessions'
         /\ s \notin DOMAIN pdf_data_storage'
         /\ (chat_reply'.code = 404) <=>
              (s \notin DOMAIN chat_sessions /\ s \notin DOMAIN pdf_data_storage)]_vars

Paired(history) ==
  /\ Len(history) >= 1
  /\ history[1] = greeting_message
  /\ Len(history) % 2 = 1
  /\ \A i \in 2..Len(history) :
       history[i].role = (IF i % 2 = 0 THEN "user" ELSE "assistant")

\* C30: the history of every session is the greeting followed by complete
\* pairs of a user message and its assistant reply, and the history a
\* request sends to the chat model is made of such pairs too.
C30_HistoryIsPairs ==
  /\ \A s \in DOMAIN chat_sessions : Paired(chat_sessions[s].messages)
  /\ chat_prompt # <<>> =>
       Paired(<<greeting_message>> \o SubSeq(chat_prompt, 2, Len(chat_prompt) - 1))

====
